---- MODULE Spec2Model ----
(***************************************************************************)
(* Model of the bronze -> silver flattening (transform_powerbi.py) and of  *)
(* the silver -> gold load (load_powerbi.py) of visionbi_monitor, of main  *)
(* of its timer-triggered entry points, and of the remote calls of         *)
(* post_workspace_scan and process_aad_data.                               *)
(*                                                                         *)
(* A DataFrame is a record [cols, rows]: cols is the set of column labels  *)
(* and rows the sequence of rows, each a function from cols to cell        *)
(* values.  Column labels are strings; the positional label 0 of a frame   *)
(* built from a list of lists is written "0".  A frame built from an empty *)
(* list has no columns and no rows.                                        *)
(*                                                                         *)
(* A stored file is [exists, df].  A write replaces the file as a whole or *)
(* fails and leaves it as it was (partial writes are outside the model).   *)
(***************************************************************************)
EXTENDS Naturals, Integers, Sequences, FiniteSets, TLC

VARIABLES
    gold,       \* curated store: path -> file
    pc,         \* position of load_power_bi_data: "idle" | "loop"
    client,     \* tenant of the current load_power_bi_data call
    variant,    \* today's conformed (silver) snapshot of that tenant
    ti,         \* index of the next table of the flattened table list
    attempted,  \* names whose loop body has run in the current call
    faults,     \* store failures injected so far
    runs,       \* completed load_power_bi_data calls
    log,        \* records appended to logger.logging_rows by the current call
    last,       \* what the last loop iteration did
    mE, mI, mC, mOut, mpc,  \* inputs and result of a direct merge_new_rows call
    scan,       \* input_data['workspace_content'] of transform_powerbi_data
    wi,         \* index of the next workspace of the scan
    fpc,        \* position of transform_powerbi_data: "off" | "read" | "flatten" |
                \* "flattened" | "write" | "done" | "failed"
    user_access, users, workspace_content, all_data,  \* the four collections
    tclient,     \* tenant of the transform_powerbi_data call
    output_data, \* the tables of the shaping step, in dict order
    written,     \* conformed tables written by the call, in write order
    tlog,        \* records appended to logger.logging_rows by the call
    texc,        \* the exception the call has raised to its caller, or "none"
    cin,         \* arguments of a direct call of a flattening function
    cst,         \* the collections before the call
    cout,        \* the collections after the call, err set if it raised
    cpc,         \* "off" | "ready" | the function that was called
    entry,       \* the entry point main belongs to
    mainpc,      \* position of main: "off" | "start" | "tasks" | "flush" |
                 \* "handler" | "returned" | "raised"
    bound,       \* datalake_writer is a local of main
    tasks,       \* the outcome of each tenant's task, or "pending"
    logging_rows,\* logger.logging_rows
    saved,       \* the calls of save_logs, in order
    failure,     \* what sent main to its except clause, or "none"
    rtask,       \* the remote operation under way: "scan" | "aad"
    rclient,     \* its tenant
    rpc,         \* its position: "off" | "list" | "run" | "returned" | "raised"
    rn,          \* the batches of workspace ids, or the users, it goes through
    ri,          \* the batch or user that is next
    token,       \* the API object holds a valid access token
    http,        \* the HTTP requests issued, in order
    rlog,        \* the records the operation has logged
    files,       \* raw store: file system -> names of its files
    now,         \* today, as a day number
    dclient,     \* tenant of the current process_powerbi_activities call
    dpc,         \* its position: "off" | "idle" | "pull" | "done" | "raised"
    todo,        \* the dates get_todo_dates returned
    di,          \* the date whose child task is next
    dfailed,     \* a child task of this call has raised
    activity_writes, \* the activity artifacts written, in order
    druns,       \* calls of process_powerbi_activities so far
    dlog,        \* the records these calls have logged
    default_data, \* the list object that is get_workspaces' default for data
    papi,        \* the paginated operation under way: "workspaces" | "activities" | "users"
    pclient,     \* tenant of the API object that is called
    ppc,         \* its position: "off" | "idle" | "paging" | "returned" | "landed" | "raised"
    pdata,       \* the list the call accumulates in
    pages,       \* the responses this call has received, in request order
    presult,     \* the list the call returned
    landed,      \* the workspace artifacts written, in order
    pcalls,      \* calls of a paginated operation so far
    plog,        \* the records these calls have logged
    cost_files,  \* the cost artifacts in the raw store
    sclient,     \* tenant of the current process_azure_data call
    spc,         \* its position: "off" | "idle" | "costs" | "done" | "raised"
    subs,        \* the subscriptions of the tenant
    si,          \* the subscription whose get_azure_costs task is next
    sraised,     \* what the tasks of this call have raised, in order
    sext,        \* a store or API call of this call has failed
    slast,       \* what the last get_azure_costs task did
    scalls,      \* calls of process_azure_data so far
    slog         \* the records these calls have logged

vars == <<gold, pc, client, variant, ti, attempted, faults, runs, log, last,
          mE, mI, mC, mOut, mpc,
          scan, wi, fpc, user_access, users, workspace_content, all_data,
          tclient, output_data, written, tlog, texc,
          cin, cst, cout, cpc,
          entry, mainpc, bound, tasks, logging_rows, saved, failure,
          rtask, rclient, rpc, rn, ri, token, http, rlog,
          files, now, dclient, dpc, todo, di, dfailed, activity_writes, druns, dlog,
          default_data, papi, pclient, ppc, pdata, pages, presult, landed, pcalls, plog,
          cost_files, sclient, spc, subs, si, sraised, sext, slast, scalls, slog>>
costVars == <<cost_files, sclient, spc, subs, si, sraised, sext, slast, scalls, slog>>
pageVars == <<default_data, papi, pclient, ppc, pdata, pages, presult, landed, pcalls, plog>>
dateVars == <<files, now, dclient, dpc, todo, di, dfailed, activity_writes, druns, dlog>>
remoteVars == <<rtask, rclient, rpc, rn, ri, token, http, rlog>>
callVars == <<cin, cst, cout, cpc>>
mainVars == <<entry, mainpc, bound, tasks, logging_rows, saved, failure>>
flatVars == <<scan, wi, fpc, user_access, users, workspace_content, all_data,
              tclient, output_data, written, tlog, texc>>
loadVars == <<gold, pc, client, variant, ti, attempted, faults, runs, log, last>>
mergeVars == <<mE, mI, mC, mOut, mpc>>

(***************************************************************************)
(* Bounds                                                                  *)
(***************************************************************************)
MaxRows == 2        \* rows of a frame handed to merge_new_rows directly
MaxRuns == 2        \* load_power_bi_data calls in a behaviour
MaxFaults == 1      \* store failures in a behaviour

Ids == {"a", "b"}           \* identity-cell values
Clients == {"c1", "c2"}     \* tenants

RECURSIVE SeqsUpTo(_, _)
SeqsUpTo(S, n) ==
    IF n = 0 THEN {<<>>}
    ELSE LET shorter == SeqsUpTo(S, n - 1)
         IN  shorter \cup {Append(s, x) : s \in {t \in shorter : Len(t) = n - 1}, x \in S}

RECURSIVE SelectRows(_, _)
SelectRows(s, keep) ==
    IF s = <<>> THEN <<>>
    ELSE IF keep[1]
         THEN <<s[1]>> \o SelectRows(Tail(s), Tail(keep))
         ELSE SelectRows(Tail(s), Tail(keep))

(***************************************************************************)
(* DataFrames                                                              *)
(***************************************************************************)
EmptyFrame == [cols |-> {}, rows |-> <<>>]

\* DataFrame.empty: some axis has length 0
IsEmpty(df) == df.cols = {} \/ Len(df.rows) = 0

\* Series.isin: the cells of column c of df that occur in column c of other
ColumnValues(df, c) == {df.rows[i][c] : i \in 1..Len(df.rows)}

(***************************************************************************)
(* merge_new_rows                                                          *)
(***************************************************************************)
\* result of a call: a frame, or the KeyError of selecting a missing column
Returned(df) == [raised |-> FALSE, df |-> df]
KeyError == [raised |-> TRUE, df |-> EmptyFrame]

\* variant: the new rows are put in front of the current rows
merge_new_rows_front(current_df, silver_df, id_column) ==
    IF IsEmpty(current_df) THEN Returned(silver_df)
    ELSE IF id_column \notin silver_df.cols \/ id_column \notin current_df.cols
    THEN KeyError
    ELSE LET present == ColumnValues(current_df, id_column)
             keep == [i \in 1..Len(silver_df.rows) |->
                         silver_df.rows[i][id_column] \notin present]
         IN  Returned([cols |-> current_df.cols \cup silver_df.cols,
                       rows |-> SelectRows(silver_df.rows, keep) \o current_df.rows])

\* variant: an incoming row is new only if its identity value is neither in
\* the current frame nor earlier in the incoming frame
merge_new_rows_unique(current_df, silver_df, id_column) ==
    IF IsEmpty(current_df) THEN Returned(silver_df)
    ELSE IF id_column \notin silver_df.cols \/ id_column \notin current_df.cols
    THEN KeyError
    ELSE LET present == ColumnValues(current_df, id_column)
             keep == [i \in 1..Len(silver_df.rows) |->
                         /\ silver_df.rows[i][id_column] \notin present
                         /\ \A j \in 1..(i - 1) :
                               silver_df.rows[j][id_column] # silver_df.rows[i][id_column]]
         IN  Returned([cols |-> current_df.cols \cup silver_df.cols,
                       rows |-> current_df.rows \o SelectRows(silver_df.rows, keep)])

\* variant: no early return for an empty current frame
merge_new_rows_noempty(current_df, silver_df, id_column) ==
    IF id_column \notin silver_df.cols \/ id_column \notin current_df.cols
    THEN KeyError
    ELSE LET present == ColumnValues(current_df, id_column)
             keep == [i \in 1..Len(silver_df.rows) |->
                         silver_df.rows[i][id_column] \notin present]
         IN  Returned([cols |-> current_df.cols \cup silver_df.cols,
                       rows |-> current_df.rows \o SelectRows(silver_df.rows, keep)])

\* variant: every incoming row is appended
merge_new_rows_all(current_df, silver_df, id_column) ==
    IF IsEmpty(current_df) THEN Returned(silver_df)
    ELSE IF id_column \notin silver_df.cols \/ id_column \notin current_df.cols
    THEN KeyError
    ELSE Returned([cols |-> current_df.cols \cup silver_df.cols,
                   rows |-> current_df.rows \o silver_df.rows])

merge_new_rows(current_df, silver_df, id_column) ==
    IF IsEmpty(current_df) THEN Returned(silver_df)
    ELSE IF id_column \notin silver_df.cols \/ id_column \notin current_df.cols
    THEN KeyError
    ELSE LET present == ColumnValues(current_df, id_column)
             keep == [i \in 1..Len(silver_df.rows) |->
                         silver_df.rows[i][id_column] \notin present]
             new_rows == SelectRows(silver_df.rows, keep)
         IN  Returned([cols |-> current_df.cols \cup silver_df.cols,
                       rows |-> current_df.rows \o new_rows])

(***************************************************************************)
(* load_power_bi_data: tables, identity columns, paths                     *)
(***************************************************************************)
\* variant: the override for activities is missing
id_columns_default(name) ==
    CASE name = "users" -> "graphId"
      [] name = "user_access" -> "0"
      [] name = "workspace_content" -> "0"
      [] OTHER -> "id"

id_columns(name) ==
    CASE name = "users" -> "graphId"
      [] name = "activities" -> "Id"
      [] name = "user_access" -> "0"
      [] name = "workspace_content" -> "0"
      [] OTHER -> "id"

\* all_tables.items() flattened in iteration order
all_tables ==
    << <<"dimensions", "users">>, <<"dimensions", "workspaces">>,
       <<"dimensions", "reports">>, <<"dimensions", "datasets">>,
       <<"facts", "user_access">>, <<"facts", "workspace_content">>,
       <<"facts", "activities">>, <<"facts", "azure_spend">> >>

TableNames == {all_tables[i][2] : i \in 1..Len(all_tables)}

path_abbreviation(kind) == IF kind = "dimensions" THEN "dim" ELSE "fact"

\* f"{kind}/{path_abbreviation}_{name}"
GoldPath(kind, name) == <<kind, path_abbreviation(kind), name>>

GoldPaths == {GoldPath(all_tables[i][1], all_tables[i][2]) : i \in 1..Len(all_tables)}

\* f"{today}/{client}/{name}"
SilverPath(c, name) == <<"today", c, name>>

(***************************************************************************)
(* The conformed layer as the load finds it.  The columns of a conformed   *)
(* table are those the transform gives it: an identity column and one      *)
(* attribute column are kept.                                              *)
(***************************************************************************)
DataKey(name) ==
    CASE name = "users" -> "graphId"
      [] name = "activities" -> "Id"
      [] name \in {"user_access", "workspace_content"} -> "0"
      [] OTHER -> "id"

DataAttr(name) ==
    CASE name = "users" -> "displayName"
      [] name = "activities" -> "Activity"
      [] name \in {"user_access", "workspace_content"} -> "1"
      [] OTHER -> "name"

Row(name, k, a) == (DataKey(name) :> k) @@ (DataAttr(name) :> a)

\* a snapshot: the identity cells of the rows, in order, and the attribute
\* cell all rows of that day carry.  The days a load can meet: nothing
\* conformed, one row, the same identity with another attribute next to a
\* new identity, and one identity twice.
Variants ==
    { [keys |-> <<>>, stamp |-> "s1"],
      [keys |-> <<"a">>, stamp |-> "s1"],
      [keys |-> <<"a", "b">>, stamp |-> "s2"],
      [keys |-> <<"b", "b">>, stamp |-> "s1"] }

\* pd.DataFrame(rows): no rows, no columns
SilverFrame(name, v) ==
    IF v.keys = <<>> THEN EmptyFrame
    ELSE [cols |-> {DataKey(name), DataAttr(name)},
          rows |-> [i \in 1..Len(v.keys) |-> Row(name, v.keys[i], v.stamp)]]

(***************************************************************************)
(* Stored files and log records                                            *)
(***************************************************************************)
NoFile == [exists |-> FALSE, df |-> EmptyFrame]
File(df) == [exists |-> TRUE, df |-> df]

\* LoggingManager.write_log(client, operation, kind, text)
LogEntry(c, operation, kind, text) ==
    [client |-> c, operation |-> operation, kind |-> kind, text |-> text]

\* variant: the writer passes the level where write_log expects it
WriterLog_level(ok, what, file_name) ==
    LogEntry("datalake_writer", what, IF ok THEN "DEBUG" ELSE "ERROR",
             <<IF ok THEN "done" ELSE "Error", file_name>>)

\* the record DataLakeWriter writes after a read or write: its arguments
\* are ('datalake_writer', 'DEBUG' | 'ERROR', 'Read data' | 'Write data', text)
WriterLog(ok, what, file_name) ==
    LogEntry("datalake_writer", IF ok THEN "DEBUG" ELSE "ERROR", what,
             <<IF ok THEN "done" ELSE "Error", file_name>>)

NoStep ==
    [name |-> "", kind |-> "", path |-> <<>>, id_column |-> "",
     silverOk |-> FALSE, dataframe |-> EmptyFrame, goldBefore |-> NoFile,
     goldReadOk |-> FALSE, mergeRaised |-> FALSE, bootstrap |-> FALSE,
     writeTried |-> FALSE, writeOk |-> FALSE, df |-> EmptyFrame,
     logged |-> <<>>]

(***************************************************************************)
(* Flattening (transform_powerbi.py).                                      *)
(*                                                                         *)
(* A Python dict is the sequence of its entries in key order.  An entry is *)
(* [k, t, s, l]: key, type of the value ("str", "list" or "other"), the    *)
(* string when it is one and the list when it is one.  A user record has   *)
(* string entries only.  A row of a collection is [py, cells]: a dict row  *)
(* (py = "dict") or a list row (py = "list", cells keyed "0", "1", ...).   *)
(***************************************************************************)
StrEntry(k, v) == [k |-> k, t |-> "str", s |-> v, l |-> <<>>]
ListEntry(k, items) == [k |-> k, t |-> "list", s |-> "", l |-> items]
OtherEntry(k) == [k |-> k, t |-> "other", s |-> "", l |-> <<>>]

Has(d, k) == \E i \in 1..Len(d) : d[i].k = k
Get(d, k) == d[CHOOSE i \in 1..Len(d) : d[i].k = k]

PyDict(cells) == [py |-> "dict", cells |-> cells]
PyList(values) ==
    [py |-> "list",
     cells |-> [i \in 1..Len(values) |-> [k |-> ToString(i - 1), v |-> values[i]]]]

\* the characters of the strings that occur as keys
Spelling ==
    ("id" :> <<"i", "d">>)
    @@ ("objectId" :> <<"o", "b", "j", "e", "c", "t", "I", "d">>)
    @@ ("users" :> <<"u", "s", "e", "r", "s">>)
    @@ ("user" :> <<"u", "s", "e", "r">>)
    @@ ("reports" :> <<"r", "e", "p", "o", "r", "t", "s">>)
    @@ ("report" :> <<"r", "e", "p", "o", "r", "t">>)
    @@ ("datasets" :> <<"d", "a", "t", "a", "s", "e", "t", "s">>)
    @@ ("dataset" :> <<"d", "a", "t", "a", "s", "e", "t">>)
    @@ ("name" :> <<"n", "a", "m", "e">>)
    @@ ("graphId" :> <<"g", "r", "a", "p", "h", "I", "d">>)
    @@ ("emailAddress" :> <<"e", "m", "a", "i", "l", "A", "d", "d", "r", "e", "s", "s">>)
    @@ ("displayName" :> <<"d", "i", "s", "p", "l", "a", "y", "N", "a", "m", "e">>)
    @@ ("xUserAccessRight" :> <<"x", "U", "s", "e", "r", "A", "c", "c", "e", "s", "s", "R", "i", "g", "h", "t">>)
    @@ ("yUserAccessRight" :> <<"y", "U", "s", "e", "r", "A", "c", "c", "e", "s", "s", "R", "i", "g", "h", "t">>)
    @@ ("UserAccessRight" :> <<"U", "s", "e", "r", "A", "c", "c", "e", "s", "s", "R", "i", "g", "h", "t">>)
    @@ ("isReadOnly" :> <<"i", "s", "R", "e", "a", "d", "O", "n", "l", "y">>)
    @@ ("s" :> <<"s">>)
    @@ ("access" :> <<"a", "c", "c", "e", "s", "s">>)
    @@ ("acces" :> <<"a", "c", "c", "e", "s">>)
    @@ ("acce" :> <<"a", "c", "c", "e">>)

Chars(str) == Spelling[str]
Str(chars) == CHOOSE str \in DOMAIN Spelling : Spelling[str] = chars

\* needle in hay, for strings
Contains(hay, needle) ==
    \E i \in 1..(Len(hay) - Len(needle) + 1) :
        SubSeq(hay, i, i + Len(needle) - 1) = needle

\* str.rstrip('s')
RECURSIVE RStripS(_)
RStripS(chars) ==
    IF chars # <<>> /\ chars[Len(chars)] = "s"
    THEN RStripS(SubSeq(chars, 1, Len(chars) - 1))
    ELSE chars

rstrip_s(key) == Str(RStripS(Chars(key)))

\* variant: the matching keys, last first
RightKeys_last(user) ==
    LET keys == SelectRows([i \in 1..Len(user) |-> user[i].k],
                           [i \in 1..Len(user) |->
                               Contains(Chars(user[i].k), Chars("UserAccessRight"))])
    IN  [i \in 1..Len(keys) |-> keys[Len(keys) + 1 - i]]

\* [x for x in user if 'UserAccessRight' in x]
RightKeys(user) ==
    SelectRows([i \in 1..Len(user) |-> user[i].k],
               [i \in 1..Len(user) |-> Contains(Chars(user[i].k), Chars("UserAccessRight"))])

\* the four collections, and whether an exception has been raised
Collections(ua, us, wc, ad, err) ==
    [user_access |-> ua, users |-> us, workspace_content |-> wc,
     all_data |-> ad, err |-> err]

Raise(st) == [st EXCEPT !.err = TRUE]

\* fill_user_table appends to the list it is handed; target names it
RECURSIVE fill_user_table(_, _, _, _, _)
fill_user_table(st, target, object_type, object_id, list_of_users) ==
    IF st.err \/ list_of_users = <<>> THEN st
    ELSE LET user == list_of_users[1]
             keys == RightKeys(user)
         IN  IF keys = <<>> \/ ~Has(user, "graphId") THEN Raise(st)
             ELSE LET row == PyList(<<Get(user, "graphId").s, object_id,
                                      Get(user, keys[1]).s, object_type>>)
                      st1 == [st EXCEPT ![target] = Append(@, row)]
                  IN  fill_user_table(st1, target, object_type, object_id,
                                      Tail(list_of_users))

\* {key: value for key, value in object_data.items() if isinstance(value, str)}
StringFields(object_data) ==
    SelectRows([i \in 1..Len(object_data) |->
                   [k |-> object_data[i].k, v |-> object_data[i].s]],
               [i \in 1..Len(object_data) |-> object_data[i].t = "str"])

\* all_data[object_type].append(d), or all_data[object_type] = [d]
AddDimension(dims, object_type, dimension_data) ==
    IF \E i \in 1..Len(dims) : dims[i].key = object_type
    THEN [i \in 1..Len(dims) |->
             IF dims[i].key = object_type
             THEN [dims[i] EXCEPT !.rows = Append(@, dimension_data)]
             ELSE dims[i]]
    ELSE Append(dims, [key |-> object_type, rows |-> <<dimension_data>>])

\* the list fill_dimension_table hands to fill_user_table: its parameter
\* users, which transform_powerbi_data binds to the users collection
NestedAccessTarget == "users"

\* variant: objectId is preferred to id
fill_dimension_table_objectId(st, workspace_id, object_type, object_data) ==
    IF st.err THEN st
    ELSE IF ~Has(object_data, "id") /\ ~Has(object_data, "objectId") THEN Raise(st)
    ELSE LET element_id == IF Has(object_data, "objectId")
                           THEN Get(object_data, "objectId").s
                           ELSE Get(object_data, "id").s
             nested == IF Has(object_data, "users")
                       THEN Get(object_data, "users").l ELSE <<>>
             st1 == fill_user_table(st, NestedAccessTarget, object_type,
                                    element_id, nested)
         IN  IF st1.err THEN st1
             ELSE [st1 EXCEPT
                     !.all_data = AddDimension(@, object_type,
                                               PyDict(StringFields(object_data))),
                     !.workspace_content =
                         Append(@, PyList(<<workspace_id, element_id, object_type>>))]

fill_dimension_table(st, workspace_id, object_type, object_data) ==
    IF st.err THEN st
    ELSE IF ~Has(object_data, "id") /\ ~Has(object_data, "objectId") THEN Raise(st)
    ELSE LET element_id == IF Has(object_data, "id")
                           THEN Get(object_data, "id").s
                           ELSE Get(object_data, "objectId").s
             nested == IF Has(object_data, "users")
                       THEN Get(object_data, "users").l ELSE <<>>
             st1 == fill_user_table(st, NestedAccessTarget, object_type,
                                    element_id, nested)
         IN  IF st1.err THEN st1
             ELSE [st1 EXCEPT
                     !.all_data = AddDimension(@, object_type,
                                               PyDict(StringFields(object_data))),
                     !.workspace_content =
                         Append(@, PyList(<<workspace_id, element_id, object_type>>))]

\* user.get(key, '')
GetOr(d, k, default) == IF Has(d, k) THEN Get(d, k).s ELSE default

RECURSIVE WorkspaceUsers(_, _, _)
WorkspaceUsers(st, workspace_id, list_of_users) ==
    IF st.err \/ list_of_users = <<>> THEN st
    ELSE LET user == list_of_users[1]
         IN  IF ~Has(user, "graphId") THEN Raise(st)
             ELSE LET identity ==
                          PyDict(<< [k |-> "graphId", v |-> Get(user, "graphId").s],
                                    [k |-> "emailAddress", v |-> GetOr(user, "emailAddress", "")],
                                    [k |-> "displayName", v |-> GetOr(user, "displayName", "")] >>)
                      st1 == [st EXCEPT !.users = Append(@, identity)]
                      keys == RightKeys(user)
                  IN  IF keys = <<>> THEN Raise(st1)
                      ELSE WorkspaceUsers(
                               [st1 EXCEPT !.user_access =
                                    Append(@, PyList(<<Get(user, "graphId").s, workspace_id,
                                                       Get(user, keys[1]).s, "workspace">>))],
                               workspace_id, Tail(list_of_users))

process_workspace_users(st, workspace) ==
    IF st.err THEN st
    ELSE IF ~Has(workspace, "id") THEN Raise(st)
    ELSE WorkspaceUsers(st, Get(workspace, "id").s, Get(workspace, "users").l)

RECURSIVE ObjectsOfKey(_, _, _, _)
ObjectsOfKey(st, workspace_id, key, objects) ==
    IF st.err \/ objects = <<>> THEN st
    ELSE ObjectsOfKey(fill_dimension_table(st, workspace_id, rstrip_s(key), objects[1]),
                      workspace_id, key, Tail(objects))

RECURSIVE WorkspaceObjects(_, _, _)
WorkspaceObjects(st, workspace, i) ==
    IF st.err \/ i > Len(workspace) THEN st
    ELSE IF workspace[i].t # "list" \/ workspace[i].k = "users"
         THEN WorkspaceObjects(st, workspace, i + 1)
         ELSE WorkspaceObjects(
                  ObjectsOfKey(st, Get(workspace, "id").s, workspace[i].k, workspace[i].l),
                  workspace, i + 1)

process_workspace_objects(st, workspace) ==
    IF st.err THEN st
    ELSE IF ~Has(workspace, "id") THEN Raise(st)
    ELSE WorkspaceObjects(st, workspace, 1)

\* the body of "for workspace in input_data['workspace_content']"
RECURSIVE WorkspaceKeys(_, _, _)
WorkspaceKeys(st, workspace, i) ==
    IF st.err \/ i > Len(workspace) THEN st
    ELSE IF workspace[i].t # "list"
         THEN WorkspaceKeys(st, workspace, i + 1)
         ELSE IF workspace[i].k = "users"
              THEN WorkspaceKeys(process_workspace_users(st, workspace), workspace, i + 1)
              ELSE WorkspaceKeys(process_workspace_objects(st, workspace), workspace, i + 1)

(***************************************************************************)
(* Scan inputs                                                             *)
(***************************************************************************)
MaxWorkspaces == 2      \* workspaces in a scan result

User(graphId, rightKey, right) ==
    << StrEntry("graphId", graphId), StrEntry(rightKey, right) >>

U1Member == User("U1", "xUserAccessRight", "Member")
U2Viewer == User("U2", "yUserAccessRight", "Viewer")
U2Named ==
    << StrEntry("graphId", "U2"), StrEntry("displayName", "Ann"),
       StrEntry("xUserAccessRight", "Admin") >>
UNoRight == << StrEntry("graphId", "U1"), StrEntry("displayName", "Bob") >>
UTwoRights ==
    << StrEntry("graphId", "U2"), StrEntry("yUserAccessRight", "Viewer"),
       StrEntry("xUserAccessRight", "Admin") >>

R1Sales ==
    << StrEntry("id", "R1"), ListEntry("users", <<U2Viewer>>), StrEntry("name", "Sales") >>
R2Costs ==
    << StrEntry("objectId", "R2"), OtherEntry("isReadOnly"), StrEntry("name", "Costs") >>
R3Both ==
    << StrEntry("objectId", "O3"), StrEntry("id", "R3"),
       ListEntry("users", <<U1Member, U2Viewer>>) >>
RNoId == << StrEntry("name", "Lost") >>
D1Data == << StrEntry("id", "D1"), ListEntry("users", <<U1Member>>) >>

\* the shapes of workspace a scan can hold, for workspace id w
WorkspaceShapes(w) ==
    { << StrEntry("id", w), ListEntry("users", <<U1Member>>),
         ListEntry("reports", <<R1Sales>>) >>,
      << StrEntry("id", w), StrEntry("name", "Finance"),
         ListEntry("reports", <<R2Costs, R3Both>>) >>,
      << StrEntry("id", w), ListEntry("users", <<U1Member, U2Named>>),
         ListEntry("reports", <<R1Sales>>), ListEntry("datasets", <<D1Data>>) >>,
      << StrEntry("id", w), ListEntry("users", <<UNoRight>>) >>,
      << StrEntry("id", w), ListEntry("reports", <<R1Sales, RNoId>>) >>,
      << StrEntry("id", w), ListEntry("users", <<>>) >>,
      << StrEntry("id", w), ListEntry("access", <<R2Costs>>) >>,
      << StrEntry("id", w), ListEntry("users", <<UTwoRights>>) >>,
      << StrEntry("id", w), ListEntry("users", <<U1Member, U1Member>>),
         ListEntry("reports", <<R2Costs, R2Costs>>) >> }

WorkspaceIds == {"W1", "W2"}
Workspaces == UNION {WorkspaceShapes(w) : w \in WorkspaceIds}
Scans == SeqsUpTo(Workspaces, MaxWorkspaces)

NoCollections == Collections(<<>>, <<>>, <<>>, <<>>, FALSE)

(***************************************************************************)
(* Initial state: nothing curated yet, no call in progress                 *)
(***************************************************************************)
LoadInit ==
    /\ gold = [p \in GoldPaths |-> NoFile]
    /\ pc = "idle"
    /\ client = "c1"
    /\ variant = [keys |-> <<>>, stamp |-> "s1"]
    /\ ti = 1
    /\ attempted = <<>>
    /\ faults = 0
    /\ runs = 0
    /\ log = <<>>
    /\ last = NoStep

MergeIdle ==
    /\ mE = EmptyFrame
    /\ mI = EmptyFrame
    /\ mC = "id"
    /\ mOut = KeyError
    /\ mpc = "off"

FlattenIdle ==
    /\ scan = <<>>
    /\ wi = 1
    /\ fpc = "off"
    /\ user_access = <<>>
    /\ users = <<>>
    /\ workspace_content = <<>>
    /\ all_data = <<>>
    /\ tclient = "c1"
    /\ output_data = <<>>
    /\ written = <<>>
    /\ tlog = <<>>
    /\ texc = "none"

CallIdle ==
    /\ cin = [object |-> <<>>, users |-> <<>>, key |-> "reports"]
    /\ cst = NoCollections
    /\ cout = NoCollections
    /\ cpc = "off"

MainIdle ==
    /\ entry = "load"
    /\ mainpc = "off"
    /\ bound = FALSE
    /\ tasks = [c \in Clients |-> "pending"]
    /\ logging_rows = <<>>
    /\ saved = <<>>
    /\ failure = "none"

RemoteIdle ==
    /\ rtask = "scan"
    /\ rclient = "c1"
    /\ rpc = "off"
    /\ rn = 0
    /\ ri = 1
    /\ token = FALSE
    /\ http = <<>>
    /\ rlog = <<>>

DatesIdle ==
    /\ files = [fs \in {"test", "test-app"} |-> {}]
    /\ now = 0
    /\ dclient = "c1"
    /\ dpc = "off"
    /\ todo = <<>>
    /\ di = 1
    /\ dfailed = FALSE
    /\ activity_writes = <<>>
    /\ druns = 0
    /\ dlog = <<>>

PagesIdle ==
    /\ default_data = <<>>
    /\ papi = "workspaces"
    /\ pclient = "c1"
    /\ ppc = "off"
    /\ pdata = <<>>
    /\ pages = <<>>
    /\ presult = <<>>
    /\ landed = <<>>
    /\ pcalls = 0
    /\ plog = <<>>

CostsIdle ==
    /\ cost_files = {}
    /\ sclient = "c1"
    /\ spc = "off"
    /\ subs = <<>>
    /\ si = 1
    /\ sraised = <<>>
    /\ sext = FALSE
    /\ slast = [acted |-> FALSE, id_ |-> "", historical |-> FALSE, timeframe |-> "",
                written |-> <<>>, raised |-> "none"]
    /\ scalls = 0
    /\ slog = <<>>

Init == LoadInit /\ MergeIdle /\ FlattenIdle /\ CallIdle /\ MainIdle /\ RemoteIdle /\ DatesIdle /\ PagesIdle /\ CostsIdle

(***************************************************************************)
(* load_power_bi_data                                                      *)
(***************************************************************************)
\* entry: a tenant and that day's conformed snapshot
StartLoad ==
    /\ pc = "idle"
    /\ runs < MaxRuns
    /\ \E c \in Clients, v \in Variants :
          /\ client' = c
          /\ variant' = v
    /\ pc' = "loop"
    /\ ti' = 1
    /\ attempted' = <<>>
    /\ log' = <<>>
    /\ last' = NoStep
    /\ UNCHANGED <<gold, runs, faults>>
    /\ UNCHANGED mergeVars
    /\ UNCHANGED flatVars
    /\ UNCHANGED callVars
    /\ UNCHANGED mainVars
    /\ UNCHANGED remoteVars
    /\ UNCHANGED dateVars
    /\ UNCHANGED pageVars
    /\ UNCHANGED costVars

\* variant: a failed table ends the loop
NextTable_abort(i, failed) == IF failed THEN Len(all_tables) + 1 ELSE i + 1

\* index of the table processed after table i, whatever happened to table i
NextTable(i, failed) == i + 1

\* variant: the curated table is written whatever the conformed read did
WriteTried_always(silverOk) == TRUE

\* the write to the curated path is reached only when the read of the
\* conformed table returned: its exception goes to the outer except clause
WriteTried(silverOk) == silverOk

\* one iteration of the loop over the tables.  fault is the store call that
\* fails in this iteration, if any.
LoadStep(fault) ==
    LET kind == all_tables[ti][1]
        name == all_tables[ti][2]
        silver_name == SilverPath(client, name)
        silverOk == fault # "silver"
        dataframe == SilverFrame(name, variant)
        id_column == id_columns(name)
        path == GoldPath(kind, name)
        goldReadOk == gold[path].exists /\ fault # "gold"
        merged == merge_new_rows(gold[path].df, dataframe, id_column)
        bootstrap == silverOk /\ (~goldReadOk \/ merged.raised)
        df == IF bootstrap THEN dataframe ELSE merged.df
        writeTried == WriteTried(silverOk)
        writeOk == writeTried /\ fault # "write"
        logged ==
            IF ~silverOk
            THEN << WriterLog(FALSE, "Read data", silver_name),
                    LogEntry(client, "powerbi_load", "ERROR", <<"Error processing", name>>) >>
            ELSE << WriterLog(TRUE, "Read data", silver_name),
                    WriterLog(goldReadOk, "Read data", path) >>
                 \o (IF bootstrap
                     THEN << LogEntry(client, "powerbi_load", "INFO", <<"Creating new table", name>>) >>
                     ELSE << >>)
                 \o << WriterLog(writeOk, "Write data", path) >>
                 \o (IF writeOk
                     THEN << LogEntry(client, "powerbi_load", "INFO", <<"Successfully processed", name>>) >>
                     ELSE << LogEntry(client, "powerbi_load", "ERROR", <<"Error processing", name>>) >>)
    IN  /\ gold' = IF writeOk THEN [gold EXCEPT ![path] = File(df)] ELSE gold
        /\ log' = log \o logged
        /\ attempted' = Append(attempted, name)
        /\ ti' = NextTable(ti, fault # "none")
        /\ last' = [name |-> name, kind |-> kind, path |-> path,
                    id_column |-> id_column, silverOk |-> silverOk,
                    dataframe |-> dataframe, goldBefore |-> gold[path],
                    goldReadOk |-> silverOk /\ goldReadOk,
                    mergeRaised |-> silverOk /\ goldReadOk /\ merged.raised,
                    bootstrap |-> bootstrap, writeTried |-> writeTried,
                    writeOk |-> writeOk, df |-> IF silverOk THEN df ELSE EmptyFrame,
                    logged |-> logged]

LoadTable ==
    /\ pc = "loop"
    /\ ti <= Len(all_tables)
    /\ \/ /\ LoadStep("none")
          /\ UNCHANGED faults
       \/ /\ faults < MaxFaults
          /\ \E fault \in {"silver", "gold", "write"} :
                /\ fault = "gold" => gold[GoldPath(all_tables[ti][1], all_tables[ti][2])].exists
                /\ LoadStep(fault)
          /\ faults' = faults + 1
    /\ UNCHANGED <<pc, client, variant, runs>>
    /\ UNCHANGED mergeVars
    /\ UNCHANGED flatVars
    /\ UNCHANGED callVars
    /\ UNCHANGED mainVars
    /\ UNCHANGED remoteVars
    /\ UNCHANGED dateVars
    /\ UNCHANGED pageVars
    /\ UNCHANGED costVars

\* the loop is exhausted: the function returns None and the call's
\* locals are gone
FinishLoad ==
    /\ pc = "loop"
    /\ ti > Len(all_tables)
    /\ pc' = "idle"
    /\ runs' = runs + 1
    /\ client' = "c1"
    /\ variant' = [keys |-> <<>>, stamp |-> "s1"]
    /\ ti' = 1
    /\ attempted' = <<>>
    /\ log' = <<>>
    /\ last' = NoStep
    /\ UNCHANGED <<gold, faults>>
    /\ UNCHANGED mergeVars
    /\ UNCHANGED flatVars
    /\ UNCHANGED callVars
    /\ UNCHANGED mainVars
    /\ UNCHANGED remoteVars
    /\ UNCHANGED dateVars
    /\ UNCHANGED pageVars
    /\ UNCHANGED costVars

Next == StartLoad \/ LoadTable \/ FinishLoad

Spec == Init /\ [][Next]_vars

(***************************************************************************)
(* merge_new_rows called directly on frames drawn from bounded sets        *)
(***************************************************************************)
MCols == {"id", "name"}
MRows == [MCols -> Ids]

\* frames over MCols with at most MaxRows rows, and the frame without columns
MFrames ==
    {[cols |-> MCols, rows |-> r] : r \in SeqsUpTo(MRows, MaxRows)} \cup {EmptyFrame}

MergeInit ==
    /\ CostsIdle
    /\ PagesIdle
    /\ DatesIdle
    /\ RemoteIdle
    /\ MainIdle
    /\ LoadInit
    /\ FlattenIdle
    /\ CallIdle
    /\ mE \in MFrames
    /\ mI \in MFrames
    /\ mC \in MCols
    /\ mOut = KeyError
    /\ mpc = "call"

MergeCall ==
    /\ mpc = "call"
    /\ mOut' = merge_new_rows(mE, mI, mC)
    /\ mpc' = "done"
    /\ UNCHANGED <<mE, mI, mC>>
    /\ UNCHANGED loadVars
    /\ UNCHANGED flatVars
    /\ UNCHANGED callVars
    /\ UNCHANGED mainVars
    /\ UNCHANGED remoteVars
    /\ UNCHANGED dateVars
    /\ UNCHANGED pageVars
    /\ UNCHANGED costVars

MergeNext == MergeCall

SpecMerge == MergeInit /\ [][MergeNext]_vars

(***************************************************************************)
(* The flattening loop of transform_powerbi_data on scans drawn from a     *)
(* bounded set                                                             *)
(***************************************************************************)
\* the rows of a list of dicts or lists, as pandas labels them: the labels
\* of a row are its keys, or its positions
Labels(records) ==
    UNION {{records[i].cells[j].k : j \in 1..Len(records[i].cells)} : i \in 1..Len(records)}

Cell(record, c) ==
    IF \E j \in 1..Len(record.cells) : record.cells[j].k = c
    THEN record.cells[CHOOSE j \in 1..Len(record.cells) : record.cells[j].k = c].v
    ELSE "NaN"

\* pd.DataFrame(records): one column per label, a missing cell is NaN
DataFrame(records) ==
    [cols |-> Labels(records),
     rows |-> [i \in 1..Len(records) |-> [c \in Labels(records) |-> Cell(records[i], c)]]]

\* variant: removes the second occurrence of a row only
drop_duplicates_second(df) ==
    [df EXCEPT !.rows =
        SelectRows(df.rows,
                   [i \in 1..Len(df.rows) |->
                       Cardinality({j \in 1..(i - 1) : df.rows[j] = df.rows[i]}) # 1])]

\* DataFrame.drop_duplicates(): keep='first' over all the columns
drop_duplicates(df) ==
    [df EXCEPT !.rows =
        SelectRows(df.rows,
                   [i \in 1..Len(df.rows) |->
                       ~\E j \in 1..(i - 1) : df.rows[j] = df.rows[i]])]

\* d[key] = value on a dict kept in insertion order
DictSet(d, key, value) ==
    IF \E i \in 1..Len(d) : d[i].name = key
    THEN [i \in 1..Len(d) |-> IF d[i].name = key THEN [d[i] EXCEPT !.df = value] ELSE d[i]]
    ELSE Append(d, [name |-> key, df |-> value])

RECURSIVE DictUpdate(_, _)
DictUpdate(d, items) ==
    IF items = <<>> THEN d
    ELSE DictUpdate(DictSet(d, items[1].name, items[1].df), Tail(items))

\* the documents of the raw layer the call only passes on
RawWorkspaces == << PyDict(<< [k |-> "id", v |-> "W1"], [k |-> "name", v |-> "Sales"] >>) >>
RawActivities == << PyDict(<< [k |-> "Id", v |-> "A1"] >>) >>

\* the dict literal of the shaping step
OutputData(ua, us, wc, ad) ==
    DictUpdate(
        << [name |-> "users", df |-> drop_duplicates(DataFrame(us))],
           [name |-> "user_access", df |-> drop_duplicates(DataFrame(ua))],
           [name |-> "workspaces", df |-> DataFrame(RawWorkspaces)],
           [name |-> "workspace_content", df |-> DataFrame(wc)],
           [name |-> "activities", df |-> DataFrame(RawActivities)] >>,
        [i \in 1..Len(ad) |->
            [name |-> ad[i].key, df |-> drop_duplicates(DataFrame(ad[i].rows))]])

\* a list that holds dicts and lists: what pd.DataFrame makes of it depends
\* on the order of the rows and on the pandas release
Mixed(records) == \E i, j \in 1..Len(records) : records[i].py # records[j].py

\* f'{client}_{name}_{today}'
RawName(c, name) == <<c, name, "today">>

\* the three reads of input_data, in order; failing names the read that
\* raises, or is "none"
RawReads == <<"workspaces", "activities", "workspace_content">>

ReadRecords(c, failing) ==
    LET n == IF failing = "none" THEN Len(RawReads)
             ELSE CHOOSE i \in 1..Len(RawReads) : RawReads[i] = failing
    IN  [i \in 1..n |-> WriterLog(RawReads[i] # failing, "Read data", RawName(c, RawReads[i]))]

\* variant: the handler logs and returns
TransformFailure_swallow(c, stage) ==
    [record |-> LogEntry(c, "powerbi", "ERROR", "Failed to transform PowerBI data"),
     exc |-> "none"]

\* the except clause of transform_powerbi_data: one record, then raise
TransformFailure(c, stage) ==
    [record |-> LogEntry(c, "powerbi", "ERROR", "Failed to transform PowerBI data"),
     exc |-> stage]

FlattenInit ==
    /\ CostsIdle
    /\ PagesIdle
    /\ DatesIdle
    /\ RemoteIdle
    /\ MainIdle
    /\ LoadInit
    /\ MergeIdle
    /\ CallIdle
    /\ scan \in Scans
    /\ tclient \in Clients
    /\ wi = 1
    /\ fpc = "read"
    /\ user_access = <<>>
    /\ users = <<>>
    /\ workspace_content = <<>>
    /\ all_data = <<>>
    /\ output_data = <<>>
    /\ written = <<>>
    /\ tlog = <<>>
    /\ texc = "none"

\* the reads of the raw layer
ReadInput ==
    /\ fpc = "read"
    /\ \E failing \in {"none"} \cup {RawReads[i] : i \in 1..Len(RawReads)} :
          IF failing = "none"
          THEN /\ tlog' = tlog \o ReadRecords(tclient, failing)
               /\ fpc' = "flatten"
               /\ texc' = texc
          ELSE /\ tlog' = Append(tlog \o ReadRecords(tclient, failing),
                                 TransformFailure(tclient, "read").record)
               /\ fpc' = "failed"
               /\ texc' = TransformFailure(tclient, "read").exc
    /\ UNCHANGED <<scan, wi, user_access, users, workspace_content, all_data,
                   tclient, output_data, written>>
    /\ UNCHANGED loadVars
    /\ UNCHANGED mergeVars
    /\ UNCHANGED callVars
    /\ UNCHANGED mainVars
    /\ UNCHANGED remoteVars
    /\ UNCHANGED dateVars
    /\ UNCHANGED pageVars
    /\ UNCHANGED costVars

\* one workspace of the scan: every key of it
FlattenWorkspace ==
    /\ fpc = "flatten"
    /\ wi <= Len(scan)
    /\ LET st == WorkspaceKeys(
                     Collections(user_access, users, workspace_content, all_data, FALSE),
                     scan[wi], 1)
       IN  /\ user_access' = st.user_access
           /\ users' = st.users
           /\ workspace_content' = st.workspace_content
           /\ all_data' = st.all_data
           /\ fpc' = IF st.err THEN "failed" ELSE "flatten"
           /\ wi' = IF st.err THEN wi ELSE wi + 1
           /\ tlog' = IF st.err
                      THEN Append(tlog, TransformFailure(tclient, "shape").record)
                      ELSE tlog
           /\ texc' = IF st.err THEN TransformFailure(tclient, "shape").exc ELSE texc
    /\ UNCHANGED <<scan, tclient, output_data, written>>
    /\ UNCHANGED loadVars
    /\ UNCHANGED mergeVars
    /\ UNCHANGED callVars
    /\ UNCHANGED mainVars
    /\ UNCHANGED remoteVars
    /\ UNCHANGED dateVars
    /\ UNCHANGED pageVars
    /\ UNCHANGED costVars

\* the loop over the workspaces is exhausted
FlattenEnd ==
    /\ fpc = "flatten"
    /\ wi > Len(scan)
    /\ fpc' = "flattened"
    /\ UNCHANGED <<scan, wi, user_access, users, workspace_content, all_data,
                   tclient, output_data, written, tlog, texc>>
    /\ UNCHANGED loadVars
    /\ UNCHANGED mergeVars
    /\ UNCHANGED callVars
    /\ UNCHANGED mainVars
    /\ UNCHANGED remoteVars
    /\ UNCHANGED dateVars
    /\ UNCHANGED pageVars
    /\ UNCHANGED costVars

\* the shaping step builds every table
Shape ==
    /\ fpc = "flattened"
    /\ output_data' = OutputData(user_access, users, workspace_content, all_data)
    /\ fpc' = "write"
    /\ UNCHANGED <<scan, wi, user_access, users, workspace_content, all_data,
                   tclient, written, tlog, texc>>
    /\ UNCHANGED loadVars
    /\ UNCHANGED mergeVars
    /\ UNCHANGED callVars
    /\ UNCHANGED mainVars
    /\ UNCHANGED remoteVars
    /\ UNCHANGED dateVars
    /\ UNCHANGED pageVars
    /\ UNCHANGED costVars

\* pd.DataFrame(users) refuses a list of dicts and lists
ShapeRaises ==
    /\ fpc = "flattened"
    /\ Mixed(users)
    /\ fpc' = "failed"
    /\ tlog' = Append(tlog, TransformFailure(tclient, "frame").record)
    /\ texc' = TransformFailure(tclient, "frame").exc
    /\ UNCHANGED <<scan, wi, user_access, users, workspace_content, all_data,
                   tclient, output_data, written>>
    /\ UNCHANGED loadVars
    /\ UNCHANGED mergeVars
    /\ UNCHANGED callVars
    /\ UNCHANGED mainVars
    /\ UNCHANGED remoteVars
    /\ UNCHANGED dateVars
    /\ UNCHANGED pageVars
    /\ UNCHANGED costVars

\* one pass of "for name, df in output_data.items()"
WriteTable ==
    /\ fpc = "write"
    /\ Len(written) < Len(output_data)
    /\ LET table == output_data[Len(written) + 1]
           path == SilverPath(tclient, table.name)
       IN  \E ok \in BOOLEAN :
              IF ok
              THEN /\ written' = Append(written, [path |-> path, df |-> table.df])
                   /\ tlog' = Append(tlog, WriterLog(TRUE, "Write data", path))
                   /\ fpc' = "write"
                   /\ texc' = texc
              ELSE /\ written' = written
                   /\ tlog' = tlog \o << WriterLog(FALSE, "Write data", path),
                                        TransformFailure(tclient, "write").record >>
                   /\ fpc' = "failed"
                   /\ texc' = TransformFailure(tclient, "write").exc
    /\ UNCHANGED <<scan, wi, user_access, users, workspace_content, all_data,
                   tclient, output_data>>
    /\ UNCHANGED loadVars
    /\ UNCHANGED mergeVars
    /\ UNCHANGED callVars
    /\ UNCHANGED mainVars
    /\ UNCHANGED remoteVars
    /\ UNCHANGED dateVars
    /\ UNCHANGED pageVars
    /\ UNCHANGED costVars

\* every table is written
TransformReturn ==
    /\ fpc = "write"
    /\ Len(written) = Len(output_data)
    /\ tlog' = Append(tlog, LogEntry(tclient, "powerbi", "INFO",
                                     "Successfully transformed PowerBI data"))
    /\ fpc' = "done"
    /\ UNCHANGED <<scan, wi, user_access, users, workspace_content, all_data,
                   tclient, output_data, written, texc>>
    /\ UNCHANGED loadVars
    /\ UNCHANGED mergeVars
    /\ UNCHANGED callVars
    /\ UNCHANGED mainVars
    /\ UNCHANGED remoteVars
    /\ UNCHANGED dateVars
    /\ UNCHANGED pageVars
    /\ UNCHANGED costVars

FlattenNext ==
    \/ ReadInput
    \/ FlattenWorkspace
    \/ FlattenEnd
    \/ Shape
    \/ ShapeRaises
    \/ WriteTable
    \/ TransformReturn

SpecFlatten == FlattenInit /\ [][FlattenNext]_vars

(***************************************************************************)
(* The flattening functions called directly on arguments drawn from        *)
(* bounded sets                                                            *)
(***************************************************************************)
MaxUsers == 2           \* users in a list of users

RObjectId == << StrEntry("objectId", "O4"), StrEntry("name", "Stock") >>
RNoRightUser == << StrEntry("id", "R5"), ListEntry("users", <<U1Member, UNoRight>>) >>

CallObjects == {R1Sales, R2Costs, R3Both, RNoId, D1Data, RObjectId, RNoRightUser}
CallUsers == SeqsUpTo({U1Member, U2Named, UNoRight, UTwoRights}, MaxUsers)
CallKeys == {"reports", "datasets", "access"}

\* collections that already hold rows of an earlier workspace
SomeCollections ==
    Collections(<< PyList(<<"U9", "W9", "Admin", "workspace">>) >>,
                << PyDict(<< [k |-> "graphId", v |-> "U9"], [k |-> "emailAddress", v |-> ""],
                             [k |-> "displayName", v |-> ""] >>) >>,
                << PyList(<<"W9", "R9", "report">>) >>,
                << [key |-> "report", rows |-> << PyDict(<< [k |-> "id", v |-> "R9"] >>) >>] >>,
                FALSE)

CallInit ==
    /\ CostsIdle
    /\ PagesIdle
    /\ DatesIdle
    /\ RemoteIdle
    /\ MainIdle
    /\ LoadInit
    /\ MergeIdle
    /\ FlattenIdle
    /\ cin \in [object : CallObjects, users : CallUsers, key : CallKeys]
    /\ cst \in {NoCollections, SomeCollections}
    /\ cout = NoCollections
    /\ cpc = "ready"

\* the workspace the calls are made for
CallWorkspace(child) == << StrEntry("id", "W1"), child >>

CallFillUserTable ==
    /\ cpc = "ready"
    /\ cout' = fill_user_table(cst, "user_access", rstrip_s(cin.key), "R1", cin.users)
    /\ cpc' = "fill_user_table"
    /\ UNCHANGED <<cin, cst>>
    /\ UNCHANGED loadVars
    /\ UNCHANGED mergeVars
    /\ UNCHANGED flatVars
    /\ UNCHANGED mainVars
    /\ UNCHANGED remoteVars
    /\ UNCHANGED dateVars
    /\ UNCHANGED pageVars
    /\ UNCHANGED costVars

CallFillDimensionTable ==
    /\ cpc = "ready"
    /\ cout' = fill_dimension_table(cst, "W1", rstrip_s(cin.key), cin.object)
    /\ cpc' = "fill_dimension_table"
    /\ UNCHANGED <<cin, cst>>
    /\ UNCHANGED loadVars
    /\ UNCHANGED mergeVars
    /\ UNCHANGED flatVars
    /\ UNCHANGED mainVars
    /\ UNCHANGED remoteVars
    /\ UNCHANGED dateVars
    /\ UNCHANGED pageVars
    /\ UNCHANGED costVars

CallProcessWorkspaceUsers ==
    /\ cpc = "ready"
    /\ cout' = process_workspace_users(cst, CallWorkspace(ListEntry("users", cin.users)))
    /\ cpc' = "process_workspace_users"
    /\ UNCHANGED <<cin, cst>>
    /\ UNCHANGED loadVars
    /\ UNCHANGED mergeVars
    /\ UNCHANGED flatVars
    /\ UNCHANGED mainVars
    /\ UNCHANGED remoteVars
    /\ UNCHANGED dateVars
    /\ UNCHANGED pageVars
    /\ UNCHANGED costVars

CallProcessWorkspaceObjects ==
    /\ cpc = "ready"
    /\ cout' = process_workspace_objects(cst, CallWorkspace(ListEntry(cin.key, <<cin.object>>)))
    /\ cpc' = "process_workspace_objects"
    /\ UNCHANGED <<cin, cst>>
    /\ UNCHANGED loadVars
    /\ UNCHANGED mergeVars
    /\ UNCHANGED flatVars
    /\ UNCHANGED mainVars
    /\ UNCHANGED remoteVars
    /\ UNCHANGED dateVars
    /\ UNCHANGED pageVars
    /\ UNCHANGED costVars

CallNext ==
    \/ CallFillUserTable
    \/ CallFillDimensionTable
    \/ CallProcessWorkspaceUsers
    \/ CallProcessWorkspaceObjects

SpecCalls == CallInit /\ [][CallNext]_vars

(***************************************************************************)
(* main of the timer-triggered entry points: credentials, one task per     *)
(* tenant, the flush of the log buffer                                     *)
(***************************************************************************)
\* the entry points and the process name each hands to save_logs
Entries == {"load", "transform", "activities"}

ProcessName(e) ==
    CASE e = "load" -> "powerbi_load"
      [] e = "transform" -> "powerbi_transform"
      [] e = "activities" -> "powerbi_activities"

\* the order of "for client in clients"
ClientOrder == <<"c1", "c2">>

\* what a tenant's task can end with: "ok", or the step that failed
TaskOutcomes == {"ok", "read", "write"}

\* f"logging/{current_date}/{process_name}.json"
LogFile(e) == <<"logging", "today", ProcessName(e)>>

\* the records a tenant's task leaves in the buffer
TaskRecords(e, c, outcome) ==
    << WriterLog(outcome # "read", "Read data", <<c, e>>) >>
    \o (IF outcome = "write" THEN << WriterLog(FALSE, "Write data", <<c, e>>) >> ELSE <<>>)
    \o << LogEntry(c, e, IF outcome = "ok" THEN "INFO" ELSE "ERROR", outcome) >>

\* load_power_bi_data catches what its tables raise; the coroutines of the
\* other entry points log and re-raise
TaskRaises(e, outcome) == e # "load" /\ outcome # "ok"

\* variant: only the records that are not DEBUG are flushed
save_logs_filtered(rows, e, ok) ==
    [file |-> LogFile(e),
     doc |-> SelectRows(rows, [i \in 1..Len(rows) |-> rows[i].operation # "DEBUG"]),
     ok |-> ok]

\* save_logs: the buffer as it is at the call goes to the log file
save_logs(rows, e, ok) == [file |-> LogFile(e), doc |-> rows, ok |-> ok]

\* the record main's except clause writes when it has a writer
SystemError(e) == LogEntry("system", ProcessName(e), "ERROR", "str(e)")

MainInit ==
    /\ CostsIdle
    /\ PagesIdle
    /\ DatesIdle
    /\ RemoteIdle
    /\ LoadInit
    /\ MergeIdle
    /\ FlattenIdle
    /\ CallIdle
    /\ entry \in Entries
    /\ mainpc = "start"
    /\ bound = FALSE
    /\ tasks = [c \in Clients |-> "pending"]
    /\ logging_rows = <<>>
    /\ saved = <<>>
    /\ failure = "none"

\* secret_client, datalake_writer, logger = get_credentials()
GetCredentials ==
    /\ mainpc = "start"
    /\ \E ok \in BOOLEAN :
          /\ bound' = ok
          /\ mainpc' = IF ok THEN "tasks" ELSE "handler"
          /\ failure' = IF ok THEN failure ELSE "credentials"
    /\ UNCHANGED <<entry, tasks, logging_rows, saved>>
    /\ UNCHANGED loadVars
    /\ UNCHANGED mergeVars
    /\ UNCHANGED flatVars
    /\ UNCHANGED callVars
    /\ UNCHANGED remoteVars
    /\ UNCHANGED dateVars
    /\ UNCHANGED pageVars
    /\ UNCHANGED costVars

\* the next tenant's task runs to its end: no task of these entry points
\* suspends on I/O, so the tasks of a gather finish in the order of clients
RunTask ==
    /\ mainpc = "tasks"
    /\ \E i \in 1..Len(ClientOrder) :
          /\ tasks[ClientOrder[i]] = "pending"
          /\ \A j \in 1..(i - 1) : tasks[ClientOrder[j]] # "pending"
          /\ \E outcome \in TaskOutcomes :
                /\ tasks' = [tasks EXCEPT ![ClientOrder[i]] = outcome]
                /\ logging_rows' = logging_rows \o TaskRecords(entry, ClientOrder[i], outcome)
    /\ UNCHANGED <<entry, mainpc, bound, saved, failure>>
    /\ UNCHANGED loadVars
    /\ UNCHANGED mergeVars
    /\ UNCHANGED flatVars
    /\ UNCHANGED callVars
    /\ UNCHANGED remoteVars
    /\ UNCHANGED dateVars
    /\ UNCHANGED pageVars
    /\ UNCHANGED costVars

\* variant: main resumes as soon as one task has raised
GatherDone_first(e, t) ==
    \/ \A c \in Clients : t[c] # "pending"
    \/ \E c \in Clients : TaskRaises(e, t[c])

\* await asyncio.gather(*tasks), without return_exceptions: no task is
\* cancelled, and as no task suspends, each has run to its end before the
\* callback that resumes main is called
GatherDone(e, t) == \A c \in Clients : t[c] # "pending"

\* the loop or the gather is over: on to save_logs, or to the except clause
\* with the exception of a task
TasksDone ==
    /\ mainpc = "tasks"
    /\ GatherDone(entry, tasks)
    /\ IF \E c \in Clients : TaskRaises(entry, tasks[c])
       THEN mainpc' = "handler" /\ failure' = "task"
       ELSE mainpc' = "flush" /\ failure' = failure
    /\ UNCHANGED <<entry, bound, tasks, logging_rows, saved>>
    /\ UNCHANGED loadVars
    /\ UNCHANGED mergeVars
    /\ UNCHANGED flatVars
    /\ UNCHANGED callVars
    /\ UNCHANGED remoteVars
    /\ UNCHANGED dateVars
    /\ UNCHANGED pageVars
    /\ UNCHANGED costVars

\* save_logs at the end of the try block
Flush ==
    /\ mainpc = "flush"
    /\ \E ok \in BOOLEAN :
          /\ saved' = Append(saved, save_logs(logging_rows, entry, ok))
          /\ logging_rows' = Append(logging_rows, WriterLog(ok, "Write data", LogFile(entry)))
          /\ mainpc' = IF ok THEN "returned" ELSE "handler"
          /\ failure' = IF ok THEN failure ELSE "flush"
    /\ UNCHANGED <<entry, bound, tasks>>
    /\ UNCHANGED loadVars
    /\ UNCHANGED mergeVars
    /\ UNCHANGED flatVars
    /\ UNCHANGED callVars
    /\ UNCHANGED remoteVars
    /\ UNCHANGED dateVars
    /\ UNCHANGED pageVars
    /\ UNCHANGED costVars

\* the except clause: with a writer, one record and save_logs; then main
\* returns, unless save_logs raises
Handler ==
    /\ mainpc = "handler"
    /\ IF bound
       THEN \E ok \in BOOLEAN :
              /\ saved' = Append(saved, save_logs(Append(logging_rows, SystemError(entry)),
                                                  entry, ok))
              /\ logging_rows' = logging_rows \o << SystemError(entry),
                                                    WriterLog(ok, "Write data", LogFile(entry)) >>
              /\ mainpc' = IF ok THEN "returned" ELSE "raised"
       ELSE /\ mainpc' = "returned"
            /\ UNCHANGED <<saved, logging_rows>>
    /\ UNCHANGED <<entry, bound, tasks, failure>>
    /\ UNCHANGED loadVars
    /\ UNCHANGED mergeVars
    /\ UNCHANGED flatVars
    /\ UNCHANGED callVars
    /\ UNCHANGED remoteVars
    /\ UNCHANGED dateVars
    /\ UNCHANGED pageVars
    /\ UNCHANGED costVars

MainNext ==
    \/ GetCredentials
    \/ RunTask
    \/ TasksDone
    \/ Flush
    \/ Handler

SpecMain == MainInit /\ [][MainNext]_vars

(***************************************************************************)
(* Remote calls: make_request, the batches of post_workspace_scan and the  *)
(* license requests of process_aad_data                                    *)
(***************************************************************************)
MaxItems == 2           \* batches of a scan, users of a directory

\* one HTTP request: the endpoint, the batch or user it is made for, and
\* whether it succeeded
Req(url, item, ok) == [url |-> url, item |-> item, ok |-> ok]

RemoteState(tok, h, l, exc) == [token |-> tok, http |-> h, rlog |-> l, exc |-> exc]

\* _get_headers: a token is requested when the object holds none
get_headers(st, c, item, tokOk) ==
    IF st.token THEN st
    ELSE IF tokOk
         THEN [st EXCEPT !.token = TRUE,
                         !.http = Append(@, Req("token", item, TRUE)),
                         !.rlog = Append(@, LogEntry(c, "Token", "INFO", item))]
         ELSE [st EXCEPT !.http = Append(@, Req("token", item, FALSE)),
                         !.rlog = @ \o << LogEntry(c, "Token", "ERROR", item),
                                          LogEntry(c, "Headers", "ERROR", item) >>,
                         !.exc = TRUE]

\* make_request: the headers, then one request
make_request(st, c, url, item, tokOk, reqOk) ==
    LET h == get_headers(st, c, item, tokOk)
    IN  IF h.exc THEN h
        ELSE IF reqOk
             THEN [h EXCEPT !.http = Append(@, Req(url, item, TRUE)),
                            !.rlog = Append(@, LogEntry(c, "API Request", "INFO", item))]
             ELSE [h EXCEPT !.http = Append(@, Req(url, item, FALSE)),
                            !.rlog = Append(@, LogEntry(c, "API Request", "ERROR", item)),
                            !.exc = TRUE]

\* variant: the request of a batch is made once, on the normal endpoint
post_batch_once(st, c, item, o) ==
    make_request(st, c, "normal", item, o[1], o[2])

\* one pass of the loop of post_workspace_scan: the request of a batch, and
\* after its failure the same batch on the alternative endpoint
post_batch(st, c, item, o) ==
    LET first == make_request(st, c, "normal", item, o[1], o[2])
    IN  IF ~first.exc THEN first
        ELSE make_request(
                 [first EXCEPT !.exc = FALSE,
                               !.rlog = Append(@, LogEntry(c, "GET workspace scan",
                                                           "ERROR", item))],
                 c, "alternative", item, o[3], o[4])

\* get_users_licenses awaited by process_aad_data: the request, then the
\* await of the dict it returned, which raises TypeError; either exception
\* is caught and logged by the loop
user_licenses(st, c, item, o) ==
    LET asked == [st EXCEPT !.rlog = Append(@, LogEntry(c, "Get User Licenses", "INFO", item))]
        got == make_request(asked, c, "licenseDetails", item, o[1], o[2])
        ended == IF got.exc
                 THEN [got EXCEPT !.rlog = Append(@, LogEntry(c, "Get User Licenses",
                                                              "ERROR", item))]
                 ELSE [got EXCEPT !.rlog = Append(@, LogEntry(c, "Get User Licenses",
                                                              "INFO", item))]
    IN  [ended EXCEPT !.exc = FALSE,
                      !.rlog = Append(@, LogEntry(c, "aad", "ERROR", item))]

Outcomes == [1..4 -> BOOLEAN]

RemoteInit ==
    /\ CostsIdle
    /\ PagesIdle
    /\ DatesIdle
    /\ LoadInit
    /\ MergeIdle
    /\ FlattenIdle
    /\ CallIdle
    /\ MainIdle
    /\ rtask \in {"scan", "aad"}
    /\ rclient \in Clients
    /\ rpc = IF rtask = "aad" THEN "list" ELSE "run"
    /\ rn \in 1..MaxItems
    /\ ri = 1
    /\ token = FALSE
    /\ http = <<>>
    /\ rlog = <<>>

\* post_workspace_scan: one batch of workspace ids
ScanBatch ==
    /\ rtask = "scan" /\ rpc = "run" /\ ri <= rn
    /\ \E o \in Outcomes :
          LET st == post_batch(RemoteState(token, http, rlog, FALSE), rclient, ri, o)
          IN  /\ token' = st.token
              /\ http' = st.http
              /\ rlog' = IF st.exc
                         THEN Append(st.rlog, LogEntry(rclient, "Post Workspace Scan",
                                                       "ERROR", ri))
                         ELSE st.rlog
              /\ rpc' = IF st.exc THEN "raised" ELSE "run"
              /\ ri' = IF st.exc THEN ri ELSE ri + 1
    /\ UNCHANGED <<rtask, rclient, rn>>
    /\ UNCHANGED loadVars
    /\ UNCHANGED mergeVars
    /\ UNCHANGED flatVars
    /\ UNCHANGED callVars
    /\ UNCHANGED mainVars
    /\ UNCHANGED dateVars
    /\ UNCHANGED pageVars
    /\ UNCHANGED costVars

\* post_workspace_scan returns the scan ids
ScanReturn ==
    /\ rtask = "scan" /\ rpc = "run" /\ ri > rn
    /\ rlog' = Append(rlog, LogEntry(rclient, "Post Workspace Scan", "INFO", rn))
    /\ rpc' = "returned"
    /\ UNCHANGED <<rtask, rclient, rn, ri, token, http>>
    /\ UNCHANGED loadVars
    /\ UNCHANGED mergeVars
    /\ UNCHANGED flatVars
    /\ UNCHANGED callVars
    /\ UNCHANGED mainVars
    /\ UNCHANGED dateVars
    /\ UNCHANGED pageVars
    /\ UNCHANGED costVars

\* process_aad_data: api.list_all_users(), a directory of one page
AadListUsers ==
    /\ rtask = "aad" /\ rpc = "list"
    /\ \E o \in Outcomes :
          LET asked == RemoteState(token, http,
                                   Append(rlog, LogEntry(rclient, "List All Users", "INFO", 0)),
                                   FALSE)
              st == make_request(asked, rclient, "users", 0, o[1], o[2])
          IN  /\ token' = st.token
              /\ http' = st.http
              /\ rlog' = IF st.exc
                         THEN Append(st.rlog, LogEntry(rclient, "List All Users", "ERROR", 0))
                         ELSE st.rlog \o << LogEntry(rclient, "List All Users", "DEBUG", rn),
                                            LogEntry(rclient, "List All Users", "INFO", rn) >>
              /\ rpc' = IF st.exc THEN "raised" ELSE "run"
    /\ UNCHANGED <<rtask, rclient, rn, ri>>
    /\ UNCHANGED loadVars
    /\ UNCHANGED mergeVars
    /\ UNCHANGED flatVars
    /\ UNCHANGED callVars
    /\ UNCHANGED mainVars
    /\ UNCHANGED dateVars
    /\ UNCHANGED pageVars
    /\ UNCHANGED costVars

\* process_aad_data: one pass of "for user in users"
AadUser ==
    /\ rtask = "aad" /\ rpc = "run" /\ ri <= rn
    /\ \E o \in Outcomes :
          LET st == user_licenses(RemoteState(token, http, rlog, FALSE), rclient, ri, o)
          IN  /\ token' = st.token
              /\ http' = st.http
              /\ rlog' = st.rlog
    /\ ri' = ri + 1
    /\ UNCHANGED <<rtask, rclient, rn, rpc>>
    /\ UNCHANGED loadVars
    /\ UNCHANGED mergeVars
    /\ UNCHANGED flatVars
    /\ UNCHANGED callVars
    /\ UNCHANGED mainVars
    /\ UNCHANGED dateVars
    /\ UNCHANGED pageVars
    /\ UNCHANGED costVars

\* process_aad_data: the two writes and the closing record
AadWrite ==
    /\ rtask = "aad" /\ rpc = "run" /\ ri > rn
    /\ \E failing \in {"none", "users", "licensing"} :
          /\ rlog' = rlog
                \o << WriterLog(failing # "users", "Write data", <<rclient, "users">>) >>
                \o (IF failing = "users" THEN <<>>
                    ELSE << WriterLog(failing # "licensing", "Write data",
                                      <<rclient, "licensing">>) >>)
                \o (IF failing = "none"
                    THEN << LogEntry(rclient, "aad", "INFO", rn) >> ELSE <<>>)
          /\ rpc' = IF failing = "none" THEN "returned" ELSE "raised"
    /\ UNCHANGED <<rtask, rclient, rn, ri, token, http>>
    /\ UNCHANGED loadVars
    /\ UNCHANGED mergeVars
    /\ UNCHANGED flatVars
    /\ UNCHANGED callVars
    /\ UNCHANGED mainVars
    /\ UNCHANGED dateVars
    /\ UNCHANGED pageVars
    /\ UNCHANGED costVars

RemoteNext ==
    \/ ScanBatch
    \/ ScanReturn
    \/ AadListUsers
    \/ AadUser
    \/ AadWrite

SpecRemote == RemoteInit /\ [][RemoteNext]_vars

(***************************************************************************)
(* Properties of the load                                                  *)
(***************************************************************************)
IsPrefix(s, t) == Len(s) <= Len(t) /\ SubSeq(t, 1, Len(s)) = s

Stepped == last.name # ""

HasRecord(records, kind, text) ==
    \E i \in 1..Len(records) : records[i].kind = kind /\ records[i].text = text

HasKind(records, kind) == \E i \in 1..Len(records) : records[i].kind = kind

\* C1: a curated table, once it exists, is only ever appended to: every
\* step keeps the table and keeps its rows, unchanged and in place, as a
\* prefix of the new rows, whatever the store reads and the merge did.
C1_GoldAppendOnly ==
    [][\A p \in GoldPaths :
          gold[p].exists =>
              /\ gold'[p].exists
              /\ IsPrefix(gold[p].df.rows, gold'[p].df.rows)]_vars

\* C5: when the curated table exists but reading it or merging into it
\* fails, the iteration logs a record of kind ERROR, does not take the
\* bootstrap path and leaves the curated table as it was.
C5_ExistingGoldFailureIsError ==
    (Stepped /\ last.silverOk /\ last.goldBefore.exists
        /\ (~last.goldReadOk \/ last.mergeRaised))
    => /\ ~last.bootstrap
       /\ HasKind(last.logged, "ERROR")
       /\ gold[last.path] = last.goldBefore

\* C3: when the curated table is absent, or is read and has no rows, the
\* frame written is exactly the incoming frame, duplicates included; for an
\* empty curated table this is the result of merge_new_rows itself.
C3_BootstrapEquivalence ==
    (Stepped /\ last.silverOk)
    => /\ ~last.goldBefore.exists => last.df = last.dataframe
       /\ (last.goldReadOk /\ IsEmpty(last.goldBefore.df))
             => /\ ~last.mergeRaised
                /\ ~last.bootstrap
                /\ last.df = last.dataframe
       /\ ((~last.goldBefore.exists \/ (last.goldReadOk /\ IsEmpty(last.goldBefore.df)))
             /\ last.writeOk)
             => gold[last.path] = File(last.dataframe)

HasDuplicateKeys(df, c) ==
    \E i, j \in 1..Len(df.rows) : i # j /\ df.rows[i][c] = df.rows[j][c]

C3_WitnessAbsent ==
    /\ Stepped /\ last.silverOk /\ ~last.goldBefore.exists /\ last.writeOk
    /\ HasDuplicateKeys(last.dataframe, DataKey(last.name))

C3_Witness ==
    /\ Stepped /\ last.silverOk /\ last.goldReadOk /\ last.writeOk
    /\ IsEmpty(last.goldBefore.df)
    /\ HasDuplicateKeys(last.dataframe, DataKey(last.name))

\* C6: every call attempts every table of the list exactly once and in list
\* order, whatever failed before: during the loop the attempted names are
\* the first ti - 1 names of the list, the loop always reaches its end, and
\* it ends with the whole list attempted.
TableNameSeq == [i \in 1..Len(all_tables) |-> all_tables[i][2]]

C6_EveryTableAttemptedOnce ==
    pc = "loop"
    => /\ ti \in 1..(Len(all_tables) + 1)
       /\ attempted = SubSeq(TableNameSeq, 1, ti - 1)
       /\ ti > Len(all_tables) => attempted = TableNameSeq

C6_Witness ==
    /\ pc = "loop"
    /\ ti > Len(all_tables)
    /\ HasRecord(log, "ERROR", <<"Error processing", "users">>)
    /\ HasRecord(log, "INFO", <<"Successfully processed", "azure_spend">>)

C8_IdentityColumnMapping ==
    Stepped
    => /\ last.name = "users" => last.id_column = "graphId"
       /\ last.name = "activities" => last.id_column = "Id"
       /\ last.name \in {"user_access", "workspace_content"} => last.id_column = "0"
       /\ last.name \in {"workspaces", "reports", "datasets", "azure_spend"}
             => last.id_column = "id"
       /\ last.name \in {"users", "activities", "user_access", "workspace_content",
                         "workspaces", "reports", "datasets", "azure_spend"}
       /\ (last.goldReadOk /\ ~IsEmpty(last.goldBefore.df) /\ ~IsEmpty(last.dataframe))
             => /\ ~last.mergeRaised
                /\ \A i \in 1..Len(last.dataframe.rows) :
                      (\E j \in 1..Len(last.goldBefore.df.rows) :
                           last.goldBefore.df.rows[j][last.id_column]
                             = last.dataframe.rows[i][last.id_column])
                      \/ (\E j \in 1..Len(last.df.rows) :
                             last.df.rows[j] = last.dataframe.rows[i])

C8_Witness ==
    /\ Stepped /\ last.name = "azure_spend" /\ last.id_column = "id"
    /\ last.goldReadOk /\ ~last.mergeRaised
    /\ Len(last.df.rows) > Len(last.goldBefore.df.rows)
    /\ Len(last.goldBefore.df.rows) > 0

(***************************************************************************)
(* Properties of merge_new_rows                                            *)
(***************************************************************************)
MergeDefined == mpc = "done" /\ mC \in mE.cols /\ mC \in mI.cols

\* number of rows among the first n of mI whose identity value is not in mE
NewUpTo(n) ==
    Cardinality({i \in 1..n : mI.rows[i][mC] \notin ColumnValues(mE, mC)})

\* C2: for a non-empty existing frame E and an incoming frame I that both
\* have the identity column c, the result is the rows of E, unchanged and in
\* order, followed by exactly the rows of I whose c value occurs nowhere in
\* E's c column, in incoming order.
C2_MergeAppendsNewRows ==
    (MergeDefined /\ ~IsEmpty(mE))
    => /\ ~mOut.raised
       /\ Len(mOut.df.rows) = Len(mE.rows) + NewUpTo(Len(mI.rows))
       /\ SubSeq(mOut.df.rows, 1, Len(mE.rows)) = mE.rows
       /\ \A i \in 1..Len(mI.rows) :
             mI.rows[i][mC] \notin ColumnValues(mE, mC)
                => mOut.df.rows[Len(mE.rows) + NewUpTo(i)] = mI.rows[i]

\* one existing row; the incoming frame has a row with the same identity
\* value and another attribute, then a row with a new identity value: the
\* existing row stays as it is and only the second row is appended
C2_Witness ==
    /\ MergeDefined /\ ~IsEmpty(mE) /\ ~mOut.raised
    /\ Len(mE.rows) = 1 /\ Len(mI.rows) = 2
    /\ mI.rows[1][mC] = mE.rows[1][mC] /\ mI.rows[1] # mE.rows[1]
    /\ mI.rows[2][mC] # mE.rows[1][mC]
    /\ mOut.df.rows = <<mE.rows[1], mI.rows[2]>>

\* C4: the result has as many rows as E plus the rows of I, counted with
\* repetition, whose identity value is not among E's identity values.
C4_MergeRowCount ==
    (mpc = "done" /\ (IsEmpty(mE) \/ MergeDefined))
    => /\ ~mOut.raised
       /\ Len(mOut.df.rows)
            = Len(mE.rows)
              + Cardinality({i \in 1..Len(mI.rows) :
                               \A j \in 1..Len(mE.rows) : mE.rows[j][mC] # mI.rows[i][mC]})

C4_Witness ==
    /\ MergeDefined /\ ~IsEmpty(mE)
    /\ Len(mI.rows) = 2
    /\ mI.rows[1][mC] = mI.rows[2][mC]
    /\ mI.rows[1][mC] \notin ColumnValues(mE, mC)
    /\ Len(mOut.df.rows) = Len(mE.rows) + 2

\* C22: every path a tenant's task writes contains that tenant's
\* identifier, so two tenants never write the same path: here the curated
\* path the load writes for a table.
C22_PathsCarryTenant ==
    (Stepped /\ last.writeTried)
    => \E i \in 1..Len(last.path) : last.path[i] = client

Levels == {"INFO", "DEBUG", "ERROR"}

\* C26: the log buffer is append-only and every record in it, whichever
\* component wrote it, has a level among INFO, DEBUG and ERROR.
C26_LevelsAndAppendOnly ==
    [][(pc = "loop" /\ pc' = "loop")
         => /\ IsPrefix(log, log')
            /\ \A i \in 1..Len(log') : log'[i].kind \in Levels]_vars

\* C29: when the read of the conformed table of a name fails, the curated
\* table of that name is left as it was: no read of and no write to its
\* curated path is issued, and an ERROR record is logged for the table.
C29_SilverFailureLeavesGold ==
    (Stepped /\ ~last.silverOk)
    => /\ gold[last.path] = last.goldBefore
       /\ ~last.writeTried
       /\ ~last.goldReadOk
       /\ \A i \in 1..Len(last.logged) :
             last.logged[i].client = "datalake_writer"
                => last.logged[i].text[2] = SilverPath(client, last.name)
       /\ HasRecord(last.logged, "ERROR", <<"Error processing", last.name>>)

\* the read of a conformed table failed while its curated table existed
C29_Witness ==
    /\ Stepped /\ ~last.silverOk
    /\ last.goldBefore.exists
    /\ ~IsEmpty(last.goldBefore.df)
    /\ SilverFrame(last.name, variant) # last.goldBefore.df

\* C27: merging the same incoming frame a second time changes nothing:
\* merge_new_rows(merge_new_rows(E, I, c), I, c) = merge_new_rows(E, I, c).
C27_MergeIdempotent ==
    (mpc = "done" /\ ~mOut.raised)
    => merge_new_rows(mOut.df, mI, mC) = mOut

\* the first merge appended rows to a non-empty frame, among them two with
\* the same identity value
C27_Witness ==
    /\ MergeDefined /\ ~IsEmpty(mE) /\ ~mOut.raised
    /\ Len(mI.rows) = 2
    /\ mI.rows[1][mC] = mI.rows[2][mC]
    /\ Len(mOut.df.rows) = Len(mE.rows) + 2

\* a second load of the same conformed table, without store failures,
\* leaves the curated table as the first load left it
LoadRerunKeepsTable ==
    (Stepped /\ last.writeOk)
    => LET again == merge_new_rows(gold[last.path].df, last.dataframe, last.id_column)
       IN  (IF again.raised THEN last.dataframe ELSE again.df) = gold[last.path].df

(***************************************************************************)
(* Properties of the flattening                                            *)
(***************************************************************************)
ScenarioWorkspace ==
    << StrEntry("id", "W1"),
       ListEntry("users", << <<StrEntry("graphId", "U1"),
                               StrEntry("xUserAccessRight", "Member")>> >>),
       ListEntry("reports",
                 << << StrEntry("id", "R1"),
                       ListEntry("users", << <<StrEntry("graphId", "U2"),
                                               StrEntry("yUserAccessRight", "Viewer")>> >>),
                       StrEntry("name", "Sales") >> >>) >>

\* the graphId cells of the rows of the users collection
UserIdsOf(rows) == [i \in 1..Len(rows) |-> rows[i].cells[1].v]

\* C9: flattening the scenario workspace alone yields users U1, U2,
\* user_access (U1, W1, Member, workspace), (U2, R1, Viewer, report),
\* workspace_content (W1, R1, report) and dimensionData report: {id: R1,
\* name: Sales}.
C9_ScenarioResult ==
    (fpc = "flattened" /\ scan = <<ScenarioWorkspace>>)
    => /\ UserIdsOf(users) = <<"U1", "U2">>
       /\ user_access = << PyList(<<"U1", "W1", "Member", "workspace">>),
                           PyList(<<"U2", "R1", "Viewer", "report">>) >>
       /\ workspace_content = << PyList(<<"W1", "R1", "report">>) >>
       /\ all_data = << [key |-> "report",
                         rows |-> << PyDict(<< [k |-> "id", v |-> "R1"],
                                               [k |-> "name", v |-> "Sales"] >>) >>] >>

\* the list-valued entries of a workspace other than users
ChildEntries(workspace) ==
    {i \in 1..Len(workspace) : workspace[i].t = "list" /\ workspace[i].k # "users"}

InRows(rows, row) == \E i \in 1..Len(rows) : rows[i] = row

\* C10: once a scan is flattened, every user nested in a child object has
\* its (userId, objectId, right, objectType) tuple in user_access, every
\* workspace-level user has its (userId, workspaceId, right, "workspace")
\* tuple there, and the users collection holds identity records only.
C10_AccessTuplesInUserAccess ==
    fpc = "flattened"
    => /\ \A w \in 1..Len(scan) :
            /\ \A e \in ChildEntries(scan[w]) :
                 \A o \in 1..Len(scan[w][e].l) :
                    LET object_data == scan[w][e].l[o]
                        element_id == IF Has(object_data, "id")
                                      THEN Get(object_data, "id").s
                                      ELSE Get(object_data, "objectId").s
                        nested == IF Has(object_data, "users")
                                  THEN Get(object_data, "users").l ELSE <<>>
                    IN  \A u \in 1..Len(nested) :
                           InRows(user_access,
                                  PyList(<<Get(nested[u], "graphId").s, element_id,
                                           Get(nested[u], RightKeys(nested[u])[1]).s,
                                           rstrip_s(scan[w][e].k)>>))
            /\ Has(scan[w], "users")
                 => \A u \in 1..Len(Get(scan[w], "users").l) :
                       LET user == Get(scan[w], "users").l[u]
                       IN  InRows(user_access,
                                  PyList(<<Get(user, "graphId").s, Get(scan[w], "id").s,
                                           Get(user, RightKeys(user)[1]).s, "workspace">>))
       /\ \A i \in 1..Len(users) : users[i].py = "dict"

\* the child objects of a scan: workspace, child collection, position
ChildObjects(workspaces) ==
    {<<w, e, o>> \in (1..Len(workspaces)) \X (1..4) \X (1..MaxRows) :
        /\ e \in ChildEntries(workspaces[w])
        /\ o <= Len(workspaces[w][e].l)}

\* C11: once a scan is flattened, each child object of each workspace has
\* been flattened exactly once: workspace_content holds its (workspaceId,
\* objectId, objectType) edge and holds one row per child object, and the
\* dimension tables hold one row per child object.
C11_ContainmentComplete ==
    fpc = "flattened"
    => /\ \A c \in ChildObjects(scan) :
            LET workspace == scan[c[1]]
                object_data == workspace[c[2]].l[c[3]]
            IN  InRows(workspace_content,
                       PyList(<<Get(workspace, "id").s,
                                IF Has(object_data, "id") THEN Get(object_data, "id").s
                                ELSE Get(object_data, "objectId").s,
                                rstrip_s(workspace[c[2]].k)>>))
       /\ Len(workspace_content) = Cardinality(ChildObjects(scan))
       /\ \A d \in 1..Len(all_data) :
            Len(all_data[d].rows) =
                Cardinality({c \in ChildObjects(scan) :
                                rstrip_s(scan[c[1]][c[2]].k) = all_data[d].key})

\* the shaping step has built its tables
Shaped == fpc \in {"write", "done"} \/ (fpc = "failed" /\ texc = "write")

Table(name) == output_data[CHOOSE i \in 1..Len(output_data) : output_data[i].name = name].df

\* the rows of a sequence that no earlier row equals, in their order
FirstOccurrences(rows) ==
    SelectRows(rows, [i \in 1..Len(rows) |-> \A j \in 1..(i - 1) : rows[j] # rows[i]])

NoEqualRows(rows) == \A i, j \in 1..Len(rows) : rows[i] = rows[j] => i = j

\* df is the table of the raw collection records without its later duplicates
DedupedFrom(df, records) ==
    /\ df.cols = DataFrame(records).cols
    /\ df.rows = FirstOccurrences(DataFrame(records).rows)
    /\ NoEqualRows(df.rows)
    /\ Len(df.rows) <= Len(records)

\* C12: every table the shaping step produces (users, user_access,
\* workspace_content and each dimension table) is its raw collection with
\* every later exact-duplicate row removed and first occurrences kept in
\* order; no table holds two equal rows, none has more rows than its input.
C12_ShapedTablesDeduplicated ==
    Shaped
    => /\ DedupedFrom(Table("users"), users)
       /\ DedupedFrom(Table("user_access"), user_access)
       /\ DedupedFrom(Table("workspace_content"), workspace_content)
       /\ \A d \in 1..Len(all_data) :
            DedupedFrom(Table(all_data[d].key), all_data[d].rows)

\* C17: deduplicating a table of the shaping step a second time changes
\* nothing: dedupe(dedupe(T)) = dedupe(T) for every table T it produced.
C17_DedupIdempotent ==
    Shaped
    => \A i \in 1..Len(output_data) :
          drop_duplicates(drop_duplicates(output_data[i].df))
              = drop_duplicates(output_data[i].df)

\* a shaped table that still holds three equal rows, next to a table whose
\* raw collection lost rows in the shaping step
C17_Witness ==
    /\ Shaped
    /\ \E i, j, k \in 1..Len(Table("workspace_content").rows) :
          /\ i < j /\ j < k
          /\ Table("workspace_content").rows[i] = Table("workspace_content").rows[j]
          /\ Table("workspace_content").rows[j] = Table("workspace_content").rows[k]
    /\ Len(Table("users").rows) < Len(users)

\* the three raw reads have returned
ReadsComplete ==
    /\ Len(tlog) >= Len(RawReads)
    /\ SubSeq(tlog, 1, Len(RawReads)) = ReadRecords(tclient, "none")

\* the flattening loop has raised in workspace wi
ShapeError == fpc = "failed" /\ ReadsComplete /\ wi <= Len(scan)

ErrorRecords(records) ==
    {i \in 1..Len(records) : "ERROR" \in {records[i].kind, records[i].operation}}

\* C16: the steps of one transform are strictly ordered: no workspace is
\* flattened before the three raw reads have returned, and no conformed
\* table is written before every workspace is flattened and every table is
\* shaped.  A shape error in a workspace therefore ends the call with no
\* conformed table written, one ERROR record, and the exception raised to
\* the caller.
C16_StrictlyOrdered ==
    /\ ~ReadsComplete
         => /\ wi = 1
            /\ user_access = <<>> /\ users = <<>>
            /\ workspace_content = <<>> /\ all_data = <<>>
            /\ output_data = <<>> /\ written = <<>>
    /\ (output_data # <<>> \/ written # <<>>)
         => /\ wi > Len(scan)
            /\ output_data = OutputData(user_access, users, workspace_content, all_data)
            /\ \A i \in 1..Len(written) :
                  written[i] = [path |-> SilverPath(tclient, output_data[i].name),
                                df |-> output_data[i].df]
    /\ ShapeError
         => /\ written = <<>>
            /\ Cardinality(ErrorRecords(tlog)) = 1
            /\ tlog[Len(tlog)].kind = "ERROR" /\ tlog[Len(tlog)].client = tclient
            /\ texc # "none"

\* the second workspace of a scan holds an object without id and objectId,
\* after the first workspace was flattened
C16_Witness ==
    /\ ShapeError
    /\ wi = 2
    /\ workspace_content # <<>>
    /\ \E e \in ChildEntries(scan[wi]) :
          \E o \in 1..Len(scan[wi][e].l) :
             ~Has(scan[wi][e].l[o], "id") /\ ~Has(scan[wi][e].l[o], "objectId")

(***************************************************************************)
(* Properties of the flattening functions                                  *)
(***************************************************************************)
\* the rows a call appended to a list
Appended(before, after) == SubSeq(after, Len(before) + 1, Len(after))

EndsInS(key) == Chars(key)[Len(Chars(key))] = "s"

\* key without its last character
MinusLast(key) == Str(SubSeq(Chars(key), 1, Len(Chars(key)) - 1))

\* C13: the object type of a child collection is its container key minus
\* its last character, for every key that ends in "s": one trailing "s" is
\* removed, so a key ending in "ss" keeps one.
C13_OneTrailingSRemoved ==
    (cpc = "process_workspace_objects" /\ ~cout.err /\ EndsInS(cin.key))
    => /\ Len(Appended(cst.workspace_content, cout.workspace_content)) = 1
       /\ cout.workspace_content[Len(cout.workspace_content)].cells[3].v = MinusLast(cin.key)

HasRightKey(user) ==
    \E i \in 1..Len(user) : Contains(Chars(user[i].k), Chars("UserAccessRight"))

\* the first key of the record, in key order, that contains "UserAccessRight"
FirstRightKey(user) ==
    user[CHOOSE i \in 1..Len(user) :
            /\ Contains(Chars(user[i].k), Chars("UserAccessRight"))
            /\ \A j \in 1..(i - 1) :
                  ~Contains(Chars(user[j].k), Chars("UserAccessRight"))].k

\* C14: fill_dimension_table takes the identity of an object from its field
\* id when it has one, also when objectId is present too, otherwise from
\* objectId; an object with neither makes the call fail with nothing
\* appended to workspace_content or to the dimension data.
C14_IdentityResolution ==
    cpc = "fill_dimension_table"
    => LET object_data == cin.object
           resolved == Has(object_data, "id") \/ Has(object_data, "objectId")
           nested == IF Has(object_data, "users") THEN Get(object_data, "users").l ELSE <<>>
       IN  /\ (resolved /\ \A u \in 1..Len(nested) : HasRightKey(nested[u]))
                => ~cout.err
           /\ (resolved /\ ~cout.err)
                => Appended(cst.workspace_content, cout.workspace_content)
                     = << PyList(<<"W1",
                                   IF Has(object_data, "id")
                                   THEN Get(object_data, "id").s
                                   ELSE Get(object_data, "objectId").s,
                                   rstrip_s(cin.key)>>) >>
           /\ ~resolved
                => /\ cout.err
                   /\ cout.workspace_content = cst.workspace_content
                   /\ cout.all_data = cst.all_data

\* an object that has objectId and id, in that order, was flattened
C14_Witness ==
    /\ cpc = "fill_dimension_table"
    /\ cin.object = R3Both
    /\ ~cout.err
    /\ Len(cout.workspace_content) = Len(cst.workspace_content) + 1

\* the users at the head of a list that have an access-right key
RECURSIVE Discoverable(_)
Discoverable(list_of_users) ==
    IF list_of_users = <<>> \/ ~HasRightKey(list_of_users[1]) THEN 0
    ELSE 1 + Discoverable(Tail(list_of_users))

\* C15: the right of a user record, workspace-level or nested, is the value
\* of its first key, in key order, that contains "UserAccessRight"; a record
\* without such a key makes the flattening fail there, and no tuple with a
\* default or empty right is emitted for it.
C15_AccessRightDiscovery ==
    cpc \in {"fill_user_table", "process_workspace_users"}
    => LET rows == Appended(cst.user_access, cout.user_access)
           n == Discoverable(cin.users)
       IN  /\ cout.err <=> n < Len(cin.users)
           /\ Len(rows) = n
           /\ \A i \in 1..n :
                 /\ rows[i].cells[1].v = Get(cin.users[i], "graphId").s
                 /\ rows[i].cells[3].v = Get(cin.users[i], FirstRightKey(cin.users[i])).s

\* a record with two access-right keys, followed by a record with none
C15_Witness ==
    /\ cpc = "fill_user_table"
    /\ cin.users = <<UTwoRights, UNoRight>>
    /\ cout.err
    /\ Len(cout.user_access) = Len(cst.user_access) + 1

(***************************************************************************)
(* Properties of main                                                      *)
(***************************************************************************)
MainEnded == mainpc \in {"returned", "raised"}

TaskFailed == \E c \in Clients : tasks[c] \notin {"pending", "ok"}

\* C18: when a tenant's task has failed, main ends by raising an exception
\* to its invoker, never by returning normally.
C18_MainRaisesOnTaskFailure ==
    (MainEnded /\ TaskFailed) => mainpc = "raised"

\* call i of save_logs flushed the whole buffer as it was at the call: the
\* document is the buffer up to the record the writer added for that call
SaveComplete(i) ==
    /\ IsPrefix(saved[i].doc, logging_rows)
    /\ Len(logging_rows) > Len(saved[i].doc)
    /\ logging_rows[Len(saved[i].doc) + 1]
         = WriterLog(saved[i].ok, "Write data", LogFile(entry))

\* save_logs was called after everything that was logged, the record of
\* the except clause included when main went through it
FlushedAtTheEnd ==
    /\ saved # <<>>
    /\ \A i \in 1..Len(saved) : SaveComplete(i)
    /\ Len(logging_rows) = Len(saved[Len(saved)].doc) + 1
    /\ failure # "none"
         => saved[Len(saved)].doc[Len(saved[Len(saved)].doc)] = SystemError(entry)

\* C19 as stated: on every path through main, a failure of the credential
\* setup or of a tenant's task included, save_logs is called after the
\* failure and the flushed document holds every record logged before it.
C19_FlushOnEveryPath == MainEnded => FlushedAtTheEnd

\* C19: on every path through main on which get_credentials returned, a
\* failure of a tenant's task or of the first flush included, save_logs is
\* called after the failure and the flushed document holds every record
\* logged before it; when get_credentials raises, main has no writer and
\* save_logs is not called.
C19_FlushWhenWriterExists ==
    MainEnded
    => /\ bound => FlushedAtTheEnd
       /\ ~bound => (saved = <<>> /\ failure = "credentials")

\* a tenant's task raised after logging DEBUG and ERROR records, and the
\* except clause flushed the buffer
C19_Witness ==
    /\ mainpc = "returned"
    /\ failure = "task"
    /\ bound
    /\ Len(saved) = 1
    /\ saved[1].ok
    /\ \E i \in 1..Len(saved[1].doc) : saved[1].doc[i].operation = "DEBUG"
    /\ \E i \in 1..Len(saved[1].doc) : saved[1].doc[i].kind = "ERROR"

(***************************************************************************)
(* Properties of the remote calls                                          *)
(***************************************************************************)
FailedRequests == {i \in 1..Len(http) : ~http[i].ok}

ErrorsOf(operations) ==
    {i \in 1..Len(rlog) : rlog[i].kind = "ERROR" /\ rlog[i].operation \in operations}

RemoteEnded == rpc \in {"returned", "raised"}

\* every failed request has its ERROR record, written by the function that
\* issued it
FailuresLogged ==
    Cardinality(ErrorsOf({"API Request", "Token"})) = Cardinality(FailedRequests)

RequestsFor(item) == {i \in 1..Len(http) : http[i].item = item}

LoadDimensions ==
    {all_tables[i][2] : i \in {j \in 1..Len(all_tables) : all_tables[j][1] = "dimensions"}}

\* C28: every per-object-type dimension table the transform writes to the
\* conformed layer is one the load reads for the same tenant and day: its
\* path is the conformed path of a dimension name of the load.
C28_WrittenDimensionsAreLoaded ==
    \A i \in 1..Len(written) :
       (\E d \in 1..Len(all_data) : SilverPath(tclient, all_data[d].key) = written[i].path)
          => \E name \in LoadDimensions : written[i].path = SilverPath(tclient, name)

Window == 2       \* days get_todo_dates looks back (29 in the code)
MaxDay == 1       \* the last day on which a call starts
MaxCalls == 2     \* calls of process_powerbi_activities

\* f"{client}_activities_{date.strftime('%d%m%Y')}"
ActivityFile(c, day) == <<c, "activities", day>>

\* the file system get_todo_dates lists
ListedFileSystem == "test"

\* the file system process_powerbi_activity writes to
ActivityFileSystem == "test-app"

\* list_files: the names of the files of a file system
list_files(file_system) == files[file_system]

\* the record list_files writes
ListLog(ok, file_system) ==
    LogEntry("datalake_writing", IF ok THEN "DEBUG" ELSE "ERROR", "List files",
             <<IF ok THEN "done" ELSE "Error", <<file_system>> >>)

\* get_todo_dates: today and the days before it, most recent first, whose
\* artifact name is not among the listed files
get_todo_dates(c, existing_files, today) ==
    LET date(i) == today - i
        days == [k \in 1..Window |-> date(k - 1)]
        missing(day) == ActivityFile(c, day) \notin existing_files
    IN  SelectSeq(days, missing)

\* what a child task process_powerbi_activity can end with
ActivityOutcomes == {"ok", "fetch", "write"}

DatesInit ==
    /\ CostsIdle
    /\ PagesIdle
    /\ LoadInit
    /\ MergeIdle
    /\ FlattenIdle
    /\ CallIdle
    /\ MainIdle
    /\ RemoteIdle
    /\ files \in [{"test", "test-app"} -> SUBSET {ActivityFile(c, 0) : c \in Clients}]
    /\ files["test-app"] = {}
    /\ now = 0
    /\ dclient = "c1"
    /\ dpc = "idle"
    /\ todo = <<>>
    /\ di = 1
    /\ dfailed = FALSE
    /\ activity_writes = <<>>
    /\ druns = 0
    /\ dlog = <<>>

\* process_powerbi_activities up to its gather: the dates to do
GetTodoDates ==
    /\ dpc = "idle"
    /\ druns < MaxCalls
    /\ \E c \in Clients, ok \in BOOLEAN :
          /\ dclient' = c
          /\ dlog' = Append(dlog, ListLog(ok, ListedFileSystem))
          /\ IF ok
             THEN /\ todo' = get_todo_dates(c, list_files(ListedFileSystem), now)
                  /\ dpc' = "pull"
             ELSE /\ todo' = <<>>
                  /\ dpc' = "raised"
    /\ di' = 1
    /\ dfailed' = FALSE
    /\ druns' = druns + 1
    /\ UNCHANGED <<files, now, activity_writes>>
    /\ UNCHANGED loadVars
    /\ UNCHANGED mergeVars
    /\ UNCHANGED flatVars
    /\ UNCHANGED callVars
    /\ UNCHANGED mainVars
    /\ UNCHANGED remoteVars
    /\ UNCHANGED pageVars
    /\ UNCHANGED costVars

\* process_powerbi_activity for the next date: the pull, then the write of
\* the artifact; the children of the gather run one after the other
ProcessActivity ==
    /\ dpc = "pull"
    /\ di <= Len(todo)
    /\ \E outcome \in ActivityOutcomes :
          LET file_name == ActivityFile(dclient, todo[di])
          IN  /\ files' = IF outcome = "ok"
                          THEN [files EXCEPT ![ActivityFileSystem] = @ \cup {file_name}]
                          ELSE files
              /\ activity_writes' = IF outcome = "ok"
                                    THEN Append(activity_writes, file_name)
                                    ELSE activity_writes
              /\ dlog' = dlog \o
                    (CASE outcome = "ok" -> << WriterLog(TRUE, "Write data", file_name) >>
                       [] outcome = "write" -> << WriterLog(FALSE, "Write data", file_name) >>
                       [] outcome = "fetch" ->
                            << LogEntry(dclient, "Get Activities", "ERROR", file_name) >>)
              /\ dfailed' = (dfailed \/ outcome # "ok")
    /\ di' = di + 1
    /\ UNCHANGED <<now, dclient, dpc, todo, druns>>
    /\ UNCHANGED loadVars
    /\ UNCHANGED mergeVars
    /\ UNCHANGED flatVars
    /\ UNCHANGED callVars
    /\ UNCHANGED mainVars
    /\ UNCHANGED remoteVars
    /\ UNCHANGED pageVars
    /\ UNCHANGED costVars

\* the gather is over: the closing record, or the exception of a child
ActivitiesEnd ==
    /\ dpc = "pull"
    /\ di > Len(todo)
    /\ IF dfailed
       THEN dpc' = "raised" /\ dlog' = dlog
       ELSE /\ dpc' = "done"
            /\ dlog' = Append(dlog, LogEntry(dclient, "powerbi", "INFO",
                                             <<"Processed activities", <<Len(todo)>> >>))
    /\ UNCHANGED <<files, now, dclient, todo, di, dfailed, activity_writes, druns>>
    /\ UNCHANGED loadVars
    /\ UNCHANGED mergeVars
    /\ UNCHANGED flatVars
    /\ UNCHANGED callVars
    /\ UNCHANGED mainVars
    /\ UNCHANGED remoteVars
    /\ UNCHANGED pageVars
    /\ UNCHANGED costVars

\* the next call, of any tenant, the same day or a later one
NextCall ==
    /\ dpc \in {"done", "raised"}
    /\ druns < MaxCalls
    /\ \E later \in {0, 1} :
          /\ now + later <= MaxDay
          /\ now' = now + later
    /\ dpc' = "idle"
    /\ UNCHANGED <<files, dclient, todo, di, dfailed, activity_writes, druns, dlog>>
    /\ UNCHANGED loadVars
    /\ UNCHANGED mergeVars
    /\ UNCHANGED flatVars
    /\ UNCHANGED callVars
    /\ UNCHANGED mainVars
    /\ UNCHANGED remoteVars
    /\ UNCHANGED pageVars
    /\ UNCHANGED costVars

DatesNext ==
    \/ GetTodoDates
    \/ ProcessActivity
    \/ ActivitiesEnd
    \/ NextCall

SpecDates == DatesInit /\ [][DatesNext]_vars

\* C24: once the activity artifact of a tenant and a date is written it is
\* never written again: the dates still to do of a call have no artifact in
\* the store, and no artifact name is written twice.
C24_ArtifactsWrittenOnce ==
    /\ (dpc = "pull") =>
          \A i \in di..Len(todo) :
              ActivityFile(dclient, todo[i]) \notin files[ActivityFileSystem]
    /\ \A i, j \in 1..Len(activity_writes) :
          (i # j) => activity_writes[i] # activity_writes[j]

(***************************************************************************)
(* The paginated pulls: get_workspaces, get_tenant_activities and          *)
(* list_all_users                                                          *)
(***************************************************************************)

Top == 2          \* records asked for per page of workspaces (500 in the code)
MaxPages == 2     \* pages the server spreads one answer over, at most

Apis == {"workspaces", "activities", "users"}

\* the k-th record of a page: the server's answer to one request of one call
PageRecord(c, call, page, k) == <<c, call, page, k>>

\* the continuation a response can carry: none for the offset pagination of
\* workspaces; for the others the field is absent, null, or a token
Continuations(api) ==
    CASE api = "workspaces" -> {"none"}
      [] api = "activities" -> {"absent", "null", "token"}
      [] api = "users" -> {"absent", "token"}

\* the test after which each operation calls itself again:
\* len(result) == top; if token; '@odata.nextLink' in response_json
Continue(api, response) ==
    CASE api = "workspaces" -> Len(response.records) = Top
      [] api = "activities" -> response.cont = "token"
      [] api = "users" -> response.cont # "absent"

\* the records of a sequence of responses, in order
RECURSIVE Concatenation(_)
Concatenation(responses) ==
    IF responses = <<>> THEN <<>>
    ELSE responses[1].records \o Concatenation(Tail(responses))

PageOperation(api) ==
    CASE api = "workspaces" -> "Get Workspaces"
      [] api = "activities" -> "Get Tenant Activities"
      [] api = "users" -> "List All Users"

\* the records an operation logs before its request
BeforeRequest(api, c, first, count) ==
    CASE api = "workspaces" -> <<>>
      [] api = "activities" ->
            (IF first
             THEN << LogEntry(c, PageOperation(api), "DEBUG", <<"Initializing", 0>>),
                     LogEntry(c, PageOperation(api), "INFO", <<"Fetching", 0>>) >>
             ELSE << LogEntry(c, PageOperation(api), "DEBUG", <<"Using token", count>>) >>)
      [] api = "users" -> << LogEntry(c, PageOperation(api), "INFO", <<"Retrieving", count>>) >>

\* the records it logs after a response, up to the recursive call or the return
AfterResponse(api, c, response, total) ==
    LET op == PageOperation(api)
        n == Len(response.records)
        more == Continue(api, response)
    IN  CASE api = "workspaces" ->
               << LogEntry(c, op, "DEBUG", <<"Retrieved", n>>) >>
               \o (IF more THEN <<>> ELSE << LogEntry(c, op, "INFO", <<"Total", total>>) >>)
          [] api = "activities" ->
               << LogEntry(c, op, "DEBUG", <<"Received", 0>>),
                  LogEntry(c, op, "INFO", <<"Added", n>>),
                  IF more THEN LogEntry(c, op, "DEBUG", <<"Token found", total>>)
                  ELSE LogEntry(c, op, "INFO", <<"Completed", total>>) >>
          [] api = "users" ->
               << LogEntry(c, op, "DEBUG", <<"Retrieved", n>>) >>
               \o (IF more THEN <<>> ELSE << LogEntry(c, op, "INFO", <<"Total", total>>) >>)

PagesInit ==
    /\ CostsIdle
    /\ LoadInit
    /\ MergeIdle
    /\ FlattenIdle
    /\ CallIdle
    /\ MainIdle
    /\ RemoteIdle
    /\ DatesIdle
    /\ default_data = <<>>
    /\ papi \in Apis
    /\ pclient = "c1"
    /\ ppc = "idle"
    /\ pdata = <<>>
    /\ pages = <<>>
    /\ presult = <<>>
    /\ landed = <<>>
    /\ pcalls = 0
    /\ plog = <<>>

\* a task calls api.get_workspaces(), api.get_tenant_activities(date) or
\* api.list_all_users(): data is the default list, or a new one
StartPaging ==
    /\ ppc = "idle"
    /\ pcalls < MaxCalls
    /\ \E c \in Clients :
          pclient' = c
    /\ pdata' = IF papi = "workspaces" THEN default_data ELSE <<>>
    /\ pages' = <<>>
    /\ presult' = <<>>
    /\ pcalls' = pcalls + 1
    /\ ppc' = "paging"
    /\ UNCHANGED <<default_data, papi, landed, plog>>
    /\ UNCHANGED loadVars
    /\ UNCHANGED mergeVars
    /\ UNCHANGED flatVars
    /\ UNCHANGED callVars
    /\ UNCHANGED mainVars
    /\ UNCHANGED remoteVars
    /\ UNCHANGED dateVars
    /\ UNCHANGED costVars

\* one level of the recursion: the request, data.extend, and the choice
\* between the next level and the return
RequestPage ==
    /\ ppc = "paging"
    /\ \E ok \in BOOLEAN, n \in 0..Top, cont \in Continuations(papi) :
          LET page == Len(pages) + 1
              response == [records |-> [k \in 1..n |-> PageRecord(pclient, pcalls, page, k)],
                           cont |-> cont]
              data == pdata \o response.records
              before == BeforeRequest(papi, pclient, page = 1, Len(pdata))
          IN  IF ok
              THEN /\ page < MaxPages \/ ~Continue(papi, response)
                   /\ pages' = Append(pages, response)
                   /\ pdata' = data
                   /\ default_data' = IF papi = "workspaces" THEN data ELSE default_data
                   /\ plog' = plog \o before \o AfterResponse(papi, pclient, response, Len(data))
                   /\ IF Continue(papi, response)
                      THEN ppc' = "paging" /\ presult' = presult
                      ELSE ppc' = "returned" /\ presult' = data
              ELSE /\ n = 0
                   /\ cont = CHOOSE x \in Continuations(papi) : TRUE
                   /\ plog' = plog \o before
                                \o << LogEntry(pclient, PageOperation(papi), "ERROR", <<"Failed", 0>>) >>
                   /\ ppc' = "raised"
                   /\ UNCHANGED <<pages, pdata, default_data, presult>>
    /\ UNCHANGED <<papi, pclient, landed, pcalls>>
    /\ UNCHANGED loadVars
    /\ UNCHANGED mergeVars
    /\ UNCHANGED flatVars
    /\ UNCHANGED callVars
    /\ UNCHANGED mainVars
    /\ UNCHANGED remoteVars
    /\ UNCHANGED dateVars
    /\ UNCHANGED costVars

\* process_powerbi_workspaces after get_workspaces: the raw artifact of the
\* tenant and the closing record
LandWorkspaces ==
    /\ ppc = "returned"
    /\ papi = "workspaces"
    /\ \E ok \in BOOLEAN :
          LET file_name == <<pclient, "workspaces", "today">>
          IN  /\ landed' = IF ok
                           THEN Append(landed, [client |-> pclient, call |-> pcalls,
                                                file_name |-> file_name, doc |-> presult])
                           ELSE landed
              /\ plog' = plog \o << WriterLog(ok, "Write data", file_name) >>
                              \o (IF ok
                                  THEN << LogEntry(pclient, "powerbi", "INFO",
                                                   <<"Processed", Len(presult)>>) >>
                                  ELSE <<>>)
              /\ ppc' = IF ok THEN "landed" ELSE "raised"
    /\ UNCHANGED <<default_data, papi, pclient, pdata, pages, presult, pcalls>>
    /\ UNCHANGED loadVars
    /\ UNCHANGED mergeVars
    /\ UNCHANGED flatVars
    /\ UNCHANGED callVars
    /\ UNCHANGED mainVars
    /\ UNCHANGED remoteVars
    /\ UNCHANGED dateVars
    /\ UNCHANGED costVars

\* the task is over; another task of the process, of any tenant, is next
NextTask ==
    /\ \/ ppc \in {"landed", "raised"}
       \/ ppc = "returned" /\ papi # "workspaces"
    /\ pcalls < MaxCalls
    /\ ppc' = "idle"
    /\ UNCHANGED <<default_data, papi, pclient, pdata, pages, presult, landed, pcalls, plog>>
    /\ UNCHANGED loadVars
    /\ UNCHANGED mergeVars
    /\ UNCHANGED flatVars
    /\ UNCHANGED callVars
    /\ UNCHANGED mainVars
    /\ UNCHANGED remoteVars
    /\ UNCHANGED dateVars
    /\ UNCHANGED costVars

PagesNext ==
    \/ StartPaging
    \/ RequestPage
    \/ LandWorkspaces
    \/ NextTask

SpecPages == PagesInit /\ [][PagesNext]_vars

\* C21: the list a get_workspaces call returns, and the artifact the task
\* lands, hold the records of that call's own page requests and nothing
\* else: no record of an earlier call, no record of another tenant.
C21_OnlyOwnPages ==
    /\ (papi = "workspaces" /\ ppc \in {"returned", "landed"}) =>
          presult = Concatenation(pages)
    /\ \A i \in 1..Len(landed) :
          \A k \in 1..Len(landed[i].doc) :
              /\ landed[i].doc[k][1] = landed[i].client
              /\ landed[i].doc[k][2] = landed[i].call

\* the response after which the operation stops, as stated: fewer than top
\* records for workspaces, no continuation field for the others
StatedFinal(api, response) ==
    IF api = "workspaces" THEN Len(response.records) < Top
    ELSE response.cont = "absent"

\* C25: a paginated call that has returned has requested pages up to the
\* first final response and no further, and has returned the records of all
\* its pages in request order.
C25_PaginationComplete ==
    (ppc \in {"returned", "landed"}) =>
        /\ pages # <<>>
        /\ StatedFinal(papi, pages[Len(pages)])
        /\ \A i \in 1..(Len(pages) - 1) : ~StatedFinal(papi, pages[i])
        /\ presult = Concatenation(pages)

\* the two token paginations alone, a null token counted as final: what
\* C25 states holds of them
TokenPaginationComplete ==
    (papi # "workspaces" /\ ppc = "returned") =>
        /\ pages # <<>>
        /\ ~Continue(papi, pages[Len(pages)])
        /\ \A i \in 1..(Len(pages) - 1) : Continue(papi, pages[i])
        /\ presult = Concatenation(pages)

(***************************************************************************)
(* process_azure_data and get_azure_costs                                  *)
(***************************************************************************)

\* the subscription ids a tenant's secrets can name
SubscriptionIds == {"s1", "s2"}

\* the subscriptions of a tenant, in the order of the secrets
SubscriptionLists == {<<>>, <<"s1">>, <<"s2">>, <<"s1", "s2">>}

\* f"{id_}_historical_costs"
HistoricalFile(id_) == <<id_, "historical_costs">>

\* f"{id_}_costs_{current_date}"
DailyFile(id_) == <<id_, "costs", "today">>

\* [x for x in list_files('test-app') if 'historical' in x and id_ in x]
historical(listed, id_) == {x \in listed : x[2] = "historical_costs" /\ x[1] = id_}

\* what the calls of one get_azure_costs task can do: each succeeds or fails
CostOutcomes == {"ok", "list", "fetch", "write"}

\* the records of get_subscription_costs
CostsLog(c, id_, ok) ==
    << LogEntry(c, "Get Subscription Costs", "INFO", <<"Fetching", id_>>),
       LogEntry(c, "Get Subscription Costs", "DEBUG", <<"Making API request", id_>>),
       LogEntry(c, "Get Subscription Costs", IF ok THEN "INFO" ELSE "ERROR",
                <<IF ok THEN "Successfully retrieved" ELSE "Failed", id_>>) >>

\* the record list_files('test-app') writes
CostListLog(ok) ==
    LogEntry("datalake_writing", IF ok THEN "DEBUG" ELSE "ERROR", "List files",
             <<IF ok THEN "done" ELSE "Error", "test-app">>)

\* one get_azure_costs task, from the listing to its return or exception.
\* In the else branch the name costs is read before anything was assigned
\* to it: UnboundLocalError, before write_json_data is called.
get_azure_costs(c, id_, listed, outcome) ==
    LET has == historical(listed, id_) # {}
    IN  IF outcome = "list"
        THEN [acted |-> TRUE, id_ |-> id_, historical |-> FALSE, timeframe |-> "",
              written |-> <<>>, raised |-> "list",
              logged |-> << CostListLog(FALSE) >>]
        ELSE IF ~has
        THEN [acted |-> TRUE, id_ |-> id_, historical |-> FALSE, timeframe |-> "Last365Days",
              written |-> IF outcome = "ok" THEN HistoricalFile(id_) ELSE <<>>,
              raised |-> IF outcome = "ok" THEN "none" ELSE outcome,
              logged |-> << CostListLog(TRUE) >> \o CostsLog(c, id_, outcome # "fetch")
                         \o (IF outcome = "fetch" THEN <<>>
                             ELSE << WriterLog(outcome = "ok", "Write data",
                                               HistoricalFile(id_)) >>)]
        ELSE [acted |-> TRUE, id_ |-> id_, historical |-> TRUE, timeframe |-> "",
              written |-> <<>>, raised |-> "UnboundLocalError",
              logged |-> << CostListLog(TRUE) >>]

CostsInit ==
    /\ LoadInit
    /\ MergeIdle
    /\ FlattenIdle
    /\ CallIdle
    /\ MainIdle
    /\ RemoteIdle
    /\ DatesIdle
    /\ PagesIdle
    /\ cost_files \in SUBSET {HistoricalFile(id_) : id_ \in SubscriptionIds}
    /\ sclient = "c1"
    /\ spc = "idle"
    /\ subs = <<>>
    /\ si = 1
    /\ sraised = <<>>
    /\ sext = FALSE
    /\ slast = [acted |-> FALSE, id_ |-> "", historical |-> FALSE, timeframe |-> "",
                written |-> <<>>, raised |-> "none"]
    /\ scalls = 0
    /\ slog = <<>>

\* process_azure_data up to its gather: the subscriptions of the tenant
ListSubscriptions ==
    /\ spc = "idle"
    /\ scalls < MaxCalls
    /\ \E c \in Clients, list \in SubscriptionLists :
          /\ sclient' = c
          /\ subs' = list
    /\ si' = 1
    /\ sraised' = <<>>
    /\ sext' = FALSE
    /\ slast' = [slast EXCEPT !.acted = FALSE]
    /\ scalls' = scalls + 1
    /\ spc' = "costs"
    /\ UNCHANGED <<cost_files, slog>>
    /\ UNCHANGED loadVars
    /\ UNCHANGED mergeVars
    /\ UNCHANGED flatVars
    /\ UNCHANGED callVars
    /\ UNCHANGED mainVars
    /\ UNCHANGED remoteVars
    /\ UNCHANGED dateVars
    /\ UNCHANGED pageVars

\* the get_azure_costs task of the next subscription; the children of the
\* gather run one after the other
GetAzureCosts ==
    /\ spc = "costs"
    /\ si <= Len(subs)
    /\ \E outcome \in CostOutcomes :
          LET did == get_azure_costs(sclient, subs[si], cost_files, outcome)
          IN  /\ did.raised \in {"none", "UnboundLocalError"} => outcome = "ok"
              /\ slast' = [acted |-> TRUE, id_ |-> did.id_, historical |-> did.historical,
                           timeframe |-> did.timeframe, written |-> did.written,
                           raised |-> did.raised]
              /\ cost_files' = IF did.written = <<>> THEN cost_files
                               ELSE cost_files \cup {did.written}
              /\ sraised' = IF did.raised = "none" THEN sraised
                            ELSE Append(sraised, did.raised)
              /\ sext' = (sext \/ did.raised \in {"list", "fetch", "write"})
              /\ slog' = slog \o did.logged
    /\ si' = si + 1
    /\ UNCHANGED <<sclient, spc, subs, scalls>>
    /\ UNCHANGED loadVars
    /\ UNCHANGED mergeVars
    /\ UNCHANGED flatVars
    /\ UNCHANGED callVars
    /\ UNCHANGED mainVars
    /\ UNCHANGED remoteVars
    /\ UNCHANGED dateVars
    /\ UNCHANGED pageVars

\* the gather is over: the closing record, or the exception of a child
AzureEnd ==
    /\ spc = "costs"
    /\ si > Len(subs)
    /\ IF sraised # <<>>
       THEN spc' = "raised" /\ slog' = slog
       ELSE /\ spc' = "done"
            /\ slog' = Append(slog, LogEntry(sclient, "azure", "INFO",
                                             <<"Processed costs", "subscriptions">>))
    /\ UNCHANGED <<cost_files, sclient, subs, si, sraised, sext, slast, scalls>>
    /\ UNCHANGED loadVars
    /\ UNCHANGED mergeVars
    /\ UNCHANGED flatVars
    /\ UNCHANGED callVars
    /\ UNCHANGED mainVars
    /\ UNCHANGED remoteVars
    /\ UNCHANGED dateVars
    /\ UNCHANGED pageVars

\* the next call of process_azure_data, of any tenant
NextAzureCall ==
    /\ spc \in {"done", "raised"}
    /\ scalls < MaxCalls
    /\ spc' = "idle"
    /\ UNCHANGED <<cost_files, sclient, subs, si, sraised, sext, slast, scalls, slog>>
    /\ UNCHANGED loadVars
    /\ UNCHANGED mergeVars
    /\ UNCHANGED flatVars
    /\ UNCHANGED callVars
    /\ UNCHANGED mainVars
    /\ UNCHANGED remoteVars
    /\ UNCHANGED dateVars
    /\ UNCHANGED pageVars

CostsNext ==
    \/ ListSubscriptions
    \/ GetAzureCosts
    \/ AzureEnd
    \/ NextAzureCall

SpecCosts == CostsInit /\ [][CostsNext]_vars

\* C30: when no store or API call fails, get_azure_costs of a subscription
\* that has a historical artifact writes the dated daily artifact and
\* raises nothing, get_azure_costs of a subscription without one fetches
\* the last 365 days and writes the historical artifact, and the call of
\* process_azure_data ends with its INFO record.
C30_CostsWrittenAndLogged ==
    /\ (slast.acted /\ ~sext) =>
          /\ slast.raised = "none"
          /\ IF slast.historical
             THEN slast.written = DailyFile(slast.id_)
             ELSE slast.timeframe = "Last365Days" /\ slast.written = HistoricalFile(slast.id_)
    /\ (spc \in {"done", "raised"} /\ ~sext) =>
          /\ spc = "done"
          /\ slog # <<>>
          /\ slog[Len(slog)].operation = "azure"
          /\ slog[Len(slog)].kind = "INFO"

\* what C30 states of a subscription without a historical artifact holds
FirstCostsWritten ==
    (slast.acted /\ ~slast.historical /\ slast.raised = "none") =>
        /\ slast.timeframe = "Last365Days"
        /\ slast.written = HistoricalFile(slast.id_)
        /\ HistoricalFile(slast.id_) \in cost_files

====
